---- MODULE Spec2Model ----
(***************************************************************************)
(* A model of the browsing-review pipeline of event-ually's backend:       *)
(* the domain categorizer (commands/daily_review/categorizer.py), the      *)
(* visit analyzer (visit_analyzer.py), the Chrome history reader           *)
(* (chrome_reader.py) and the statistics service (browsing_stats.py).      *)
(* Python strings are TLA+ strings; str.lower and the `in` substring test  *)
(* are computed character by character.                                    *)
(***************************************************************************)
EXTENDS Integers, Sequences, FiniteSets, TLC

(***************************************************************************)
(* Bounds of the model.                                                    *)
(***************************************************************************)
\* Largest number of pattern-free filler domains in the categorizer's input.
MaxFiller == 21
\* Largest number of visits handed to the visit analyzer.
MaxVisits == 3
\* Resolution of the model's clock: a visit time is a whole number of ticks.
\* (datetime has microseconds; any resolution finer than a second shows the
\* truncation of int().)
TicksPerSecond == 2
\* Number of concurrent read_history invocations.
NumReaders == 2
\* Largest `days` handed to get_daily_stats by its caller.
MaxDays == 2
MaxClockSeconds == 1

(***************************************************************************)
(* String helpers: Python's str.lower() and `pattern in text`.             *)
(***************************************************************************)
UpperChars == "ABCDEFGHIJKLMNOPQRSTUVWXYZ"
LowerChars == "abcdefghijklmnopqrstuvwxyz"

LowerChar(c) ==
    IF \E i \in 1..Len(UpperChars) : SubSeq(UpperChars, i, i) = c
    THEN LET i == CHOOSE j \in 1..Len(UpperChars) : SubSeq(UpperChars, j, j) = c
         IN  SubSeq(LowerChars, i, i)
    ELSE c

UpperChar(c) ==
    IF \E i \in 1..Len(LowerChars) : SubSeq(LowerChars, i, i) = c
    THEN LET i == CHOOSE j \in 1..Len(LowerChars) : SubSeq(LowerChars, j, j) = c
         IN  SubSeq(UpperChars, i, i)
    ELSE c

IsLetter(c) ==
    \E i \in 1..Len(LowerChars) :
        SubSeq(LowerChars, i, i) = c \/ SubSeq(UpperChars, i, i) = c

RECURSIVE Lower(_)
Lower(s) ==
    IF Len(s) = 0 THEN ""
    ELSE LowerChar(SubSeq(s, 1, 1)) \o Lower(SubSeq(s, 2, Len(s)))

Contains(text, pattern) ==
    \E i \in 1..(Len(text) - Len(pattern) + 1) :
        SubSeq(text, i, i + Len(pattern) - 1) = pattern

\* ' '.join(titles)
RECURSIVE JoinTitles(_)
JoinTitles(titles) ==
    IF Len(titles) = 0 THEN ""
    ELSE IF Len(titles) = 1 THEN titles[1]
    ELSE titles[1] \o " " \o JoinTitles(Tail(titles))

(***************************************************************************)
(* categorizer.py: the category tables.                                    *)
(***************************************************************************)
CATEGORIES ==
    {"video", "development", "social_media", "news", "productivity",
     "shopping", "entertainment", "search", "reference", "other"}

\* The pattern table in declaration order (a dict iterates in insertion order).
DOMAIN_PATTERNS ==
    << <<"video", <<"youtube.com", "vimeo.com", "twitch.tv", "netflix.com",
                    "hulu.com", "disneyplus.com", "hbomax.com">> >>,
       <<"development", <<"github.com", "stackoverflow.com", "gitlab.com",
                          "dev.to", "npmjs.com", "pypi.org", "docs.python.org",
                          "developer.mozilla.org">> >>,
       <<"social_media", <<"twitter.com", "x.com", "facebook.com",
                           "instagram.com", "linkedin.com", "reddit.com",
                           "tiktok.com", "snapchat.com">> >>,
       <<"news", <<"nytimes.com", "bbc.com", "cnn.com", "techcrunch.com",
                   "theverge.com", "wired.com", "arstechnica.com">> >>,
       <<"productivity", <<"gmail.com", "outlook.com", "mail.google.com",
                           "notion.so", "slack.com", "asana.com", "trello.com",
                           "monday.com">> >>,
       <<"shopping", <<"amazon.com", "ebay.com", "etsy.com", "walmart.com",
                       "target.com", "alibaba.com">> >>,
       <<"entertainment", <<"spotify.com", "soundcloud.com", "apple.com/music",
                            "pandora.com">> >>,
       <<"search", <<"google.com", "bing.com", "duckduckgo.com", "yahoo.com">> >>,
       <<"reference", <<"wikipedia.org", "wikihow.com", "britannica.com">> >> >>

VIDEO_KEYWORDS == <<"video", "watch", "episode", "movie", "film">>

\* Does entry k of the pattern table match the (lower-cased) domain?
PatternEntryMatches(k, domain_lower) ==
    \E j \in 1..Len(DOMAIN_PATTERNS[k][2]) :
        Contains(domain_lower, DOMAIN_PATTERNS[k][2][j])

TitlesHaveVideoKeyword(titles) ==
    /\ Len(titles) > 0
    /\ LET titles_text == Lower(JoinTitles(titles))
       IN  \E j \in 1..Len(VIDEO_KEYWORDS) : Contains(titles_text, VIDEO_KEYWORDS[j])

\* A heuristic in which the last matching entry of the table wins.
heuristic_categorize_LastMatch(domain, titles) ==
    LET domain_lower == Lower(domain)
        hits == {k \in 1..Len(DOMAIN_PATTERNS) : PatternEntryMatches(k, domain_lower)}
    IN  IF hits # {}
        THEN DOMAIN_PATTERNS[CHOOSE k \in hits : \A m \in hits : k >= m][1]
        ELSE IF TitlesHaveVideoKeyword(titles) THEN "video"
        ELSE "other"

\* Lines 52-66.
heuristic_categorize(domain, titles) ==
    LET domain_lower == Lower(domain)
        hits == {k \in 1..Len(DOMAIN_PATTERNS) : PatternEntryMatches(k, domain_lower)}
    IN  IF hits # {}
        THEN DOMAIN_PATTERNS[CHOOSE k \in hits : \A m \in hits : k <= m][1]
        ELSE IF TitlesHaveVideoKeyword(titles) THEN "video"
        ELSE "other"

(***************************************************************************)
(* The remote classifier (the messages.create call and the parsing of its  *)
(* reply in batch_categorize_with_ai).  An outcome is what happens inside  *)
(* the try block: an exception ("fail": no API key, transport error,       *)
(* timeout, reply that is not JSON), or a reply that json.loads accepts:   *)
(* an object ("dict"), an array of strings ("list") or a number, boolean   *)
(* or null ("scalar").                                                     *)
(***************************************************************************)
EmptyMap == [d \in {} |-> "other"]

AiDict(m) == [kind |-> "dict", map |-> m, elems |-> {}]
AiList(S) == [kind |-> "list", map |-> EmptyMap, elems |-> S]
AiScalar  == [kind |-> "scalar", map |-> EmptyMap, elems |-> {}]
AiFail    == [kind |-> "fail", map |-> EmptyMap, elems |-> {}]

\* Category names a reply may carry for a domain: inside and outside CATEGORIES.
RemoteValues == {"news", "gaming", "other"}
\* Keys of a reply that are not domains of the submitted batch.
ForeignKeys == {"evil.example", "youtube.com"}

BatchDomains(batch) == {batch[j][1] : j \in 1..Len(batch)}

\* The JSON object described by the choices first/last/rest/foreign.
ReplyMap(batch, first, last, rest, foreign) ==
    LET d1 == batch[1][1]
        dn == batch[Len(batch)][1]
        keys == (IF first # "-" THEN {d1} ELSE {})
                \cup (IF last # "-" THEN {dn} ELSE {})
                \cup (IF rest THEN BatchDomains(batch) ELSE {})
                \cup (IF foreign THEN ForeignKeys ELSE {})
    IN  [d \in keys |->
            IF d = d1 /\ first # "-" THEN first
            ELSE IF d = dn /\ last # "-" THEN last
            ELSE IF d \in BatchDomains(batch) THEN "reference"
            ELSE "news"]

RemoteOutcomes(batch) ==
    {AiFail, AiScalar, AiList({}), AiList({batch[1][1]})}
    \cup {AiDict(ReplyMap(batch, first, last, rest, foreign)) :
            first \in RemoteValues \cup {"-"}, last \in {"video", "-"},
            rest \in BOOLEAN, foreign \in BOOLEAN}

\* What batch_categorize_with_ai returns: the parsed reply, or {} on exception.
batch_categorize_with_ai(outcome) ==
    IF outcome.kind = "fail" THEN AiDict(EmptyMap) ELSE outcome

(***************************************************************************)
(* categorize_domains_with_ai, step by step.  domain_data is the ordered   *)
(* dict of the input, a sequence of <<domain, titles>>.                    *)
(***************************************************************************)
batch_size == 20

\* First pass (lines 157-163): [categorization, uncategorized].
RECURSIVE FirstPass(_, _, _)
FirstPass(dd, categorization, uncategorized) ==
    IF Len(dd) = 0
    THEN [categorization |-> categorization, uncategorized |-> uncategorized]
    ELSE LET domain == dd[1][1]
             titles == dd[1][2]
             category == heuristic_categorize(domain, titles)
         IN  IF category # "other"
             THEN FirstPass(Tail(dd), (domain :> category) @@ categorization,
                            uncategorized)
             ELSE FirstPass(Tail(dd), categorization,
                            Append(uncategorized, <<domain, titles>>))

\* `domain in ai_results`: "yes", "no", or "raise" (TypeError for a scalar).
InResults(domain, ai_results) ==
    CASE ai_results.kind = "dict" ->
            IF domain \in DOMAIN ai_results.map THEN "yes" ELSE "no"
      [] ai_results.kind = "list" ->
            IF domain \in ai_results.elems THEN "yes" ELSE "no"
      [] OTHER -> "raise"

\* A variant of the merge that copies the whole reply into the mapping.
MergeBatch_UpdateAll(batch, ai_results, categorization) ==
    IF ai_results.kind # "dict"
    THEN [raised |-> TRUE, categorization |-> categorization]
    ELSE [raised |-> FALSE,
          categorization |->
              ai_results.map @@ [d \in BatchDomains(batch) |-> "other"]
                  @@ categorization]

\* A variant of the merge that also takes the keys of the reply that the
\* mapping does not have yet.
MergeBatch_AddsReplyKeys(batch, ai_results, categorization) ==
    IF ai_results.kind # "dict"
    THEN [raised |-> TRUE, categorization |-> categorization]
    ELSE [raised |-> FALSE,
          categorization |->
              categorization @@ ai_results.map
                  @@ [d \in BatchDomains(batch) |-> "other"]]

\* A variant of the merge without the fallback for a domain the reply omits.
RECURSIVE MergeBatch_NoFallback(_, _, _)
MergeBatch_NoFallback(batch, ai_results, categorization) ==
    IF Len(batch) = 0 THEN [raised |-> FALSE, categorization |-> categorization]
    ELSE LET domain == batch[1][1]
         IN  IF ai_results.kind = "dict" /\ domain \in DOMAIN ai_results.map
             THEN MergeBatch_NoFallback(Tail(batch), ai_results,
                      (domain :> ai_results.map[domain]) @@ categorization)
             ELSE MergeBatch_NoFallback(Tail(batch), ai_results, categorization)

\* Merge loop (lines 175-180): [raised, categorization].
RECURSIVE MergeBatch(_, _, _)
MergeBatch(batch, ai_results, categorization) ==
    IF Len(batch) = 0 THEN [raised |-> FALSE, categorization |-> categorization]
    ELSE LET domain == batch[1][1]
             titles == batch[1][2]
             found == InResults(domain, ai_results)
         IN  IF found = "raise"
             THEN [raised |-> TRUE, categorization |-> categorization]
             ELSE IF found = "yes"
             THEN IF ai_results.kind = "dict"
                  THEN MergeBatch(Tail(batch), ai_results,
                                  (domain :> ai_results.map[domain]) @@ categorization)
                  \* ai_results[domain] on a list: TypeError
                  ELSE [raised |-> TRUE, categorization |-> categorization]
             ELSE MergeBatch(Tail(batch), ai_results,
                     (domain :> heuristic_categorize(domain, titles)) @@ categorization)

\* The domain list of the prompt (lines 87-91): every domain of the batch with
\* titles[:3]; the empty list stands for the text 'No titles'.
DomainList(batch) ==
    [j \in 1..Len(batch) |->
        [domain |-> batch[j][1],
         sample_titles |-> SubSeq(batch[j][2], 1,
                                  IF Len(batch[j][2]) < 3 THEN Len(batch[j][2]) ELSE 3)]]

\* uncategorized[i:i + batch_size]
BatchAt(uncategorized, i) ==
    SubSeq(uncategorized, i + 1,
           IF i + batch_size < Len(uncategorized) THEN i + batch_size
           ELSE Len(uncategorized))

(***************************************************************************)
(* visit_analyzer.py.  A visit is [url, title, visit_time], visit_time in  *)
(* ticks; an annotated visit also has duration_seconds.                    *)
(***************************************************************************)
MAX_VISIT_TIME == 1800
DEFAULT_FINAL_VISIT == 60
SESSION_GAP == 1800

\* Position of the first occurrence of pattern in text, 0 if there is none.
IndexOf(text, pattern) ==
    LET hits == {i \in 1..(Len(text) - Len(pattern) + 1) :
                    SubSeq(text, i, i + Len(pattern) - 1) = pattern}
    IN  IF hits = {} THEN 0 ELSE CHOOSE i \in hits : \A j \in hits : i <= j

StartsWith(text, prefix) ==
    Len(text) >= Len(prefix) /\ SubSeq(text, 1, Len(prefix)) = prefix

\* urlparse(url).netloc: what follows "scheme://" up to the next "/", "?" or "#".
Netloc(url) ==
    LET i == IndexOf(url, "://")
    IN  IF i = 0 THEN ""
        ELSE LET rest == SubSeq(url, i + 3, Len(url))
                 ends == {k \in 1..Len(rest) : SubSeq(rest, k, k) \in {"/", "?", "#"}}
                 stop == IF ends = {} THEN Len(rest) + 1
                         ELSE CHOOSE k \in ends : \A m \in ends : k <= m
             IN  SubSeq(rest, 1, stop - 1)

extract_domain(url) ==
    LET netloc == Netloc(url)
        domain == IF StartsWith(netloc, "www.") THEN SubSeq(netloc, 5, Len(netloc))
                  ELSE netloc
    IN  IF domain = "" THEN "unknown" ELSE domain

\* sorted(visits, key=visit_time): stable, ascending.
RECURSIVE InsertByTime(_, _)
InsertByTime(sorted, v) ==
    IF Len(sorted) = 0 THEN <<v>>
    ELSE IF sorted[Len(sorted)].visit_time <= v.visit_time THEN Append(sorted, v)
    ELSE Append(InsertByTime(SubSeq(sorted, 1, Len(sorted) - 1), v), sorted[Len(sorted)])

RECURSIVE SortedByTime(_)
SortedByTime(vs) ==
    IF Len(vs) = 0 THEN <<>>
    ELSE InsertByTime(SortedByTime(SubSeq(vs, 1, Len(vs) - 1)), vs[Len(vs)])

\* int(x) of a non-negative number of ticks, in seconds.
IntSeconds(ticks) == ticks \div TicksPerSecond

\* A variant that uses the gap as it is, without the cap.
VisitDuration_NoCap(sorted, i) ==
    IF i < Len(sorted)
    THEN IntSeconds(sorted[i + 1].visit_time - sorted[i].visit_time)
    ELSE DEFAULT_FINAL_VISIT

\* The duration of the visit at position i of the sorted list (lines 67-85).
VisitDuration(sorted, i) ==
    LET duration_ticks ==
            IF i < Len(sorted)
            THEN LET time_diff == sorted[i + 1].visit_time - sorted[i].visit_time
                 IN  IF time_diff > SESSION_GAP * TicksPerSecond
                     THEN MAX_VISIT_TIME * TicksPerSecond
                     ELSE IF time_diff < MAX_VISIT_TIME * TicksPerSecond
                          THEN time_diff ELSE MAX_VISIT_TIME * TicksPerSecond
            ELSE DEFAULT_FINAL_VISIT * TicksPerSecond
        truncated == IntSeconds(duration_ticks)
    IN  IF truncated > 0 THEN truncated ELSE 0

estimate_visit_duration(vs) ==
    IF Len(vs) = 0 THEN vs
    ELSE LET sorted == SortedByTime(vs)
         IN  [i \in 1..Len(sorted) |->
                [url |-> sorted[i].url, title |-> sorted[i].title,
                 visit_time |-> sorted[i].visit_time,
                 duration_seconds |-> VisitDuration(sorted, i)]]

\* Position of domain among the keys of an ordered dict, 0 if absent.
KeyIndex(dict, domain) ==
    IF \E j \in 1..Len(dict) : dict[j].domain = domain
    THEN CHOOSE j \in 1..Len(dict) : dict[j].domain = domain
    ELSE 0

\* aggregate_by_domain: the ordered dict domain -> aggregate, as a sequence in
\* insertion order.  titles is the set the code collects (its list order is
\* the arbitrary order of a Python set).
RECURSIVE AggregateDomains(_, _)
AggregateDomains(vs, domain_map) ==
    IF Len(vs) = 0 THEN domain_map
    ELSE LET visit == vs[1]
             domain == extract_domain(visit.url)
             duration == visit.duration_seconds
             k == KeyIndex(domain_map, domain)
             base == IF k = 0
                     THEN Append(domain_map,
                                 [domain |-> domain, total_duration |-> 0,
                                  visit_count |-> 0, urls |-> <<>>, titles |-> {}])
                     ELSE domain_map
             at == IF k = 0 THEN Len(base) ELSE k
             old == base[at]
             new == [domain |-> domain,
                     total_duration |-> old.total_duration + duration,
                     visit_count |-> old.visit_count + 1,
                     urls |-> Append(old.urls,
                                     [url |-> visit.url, title |-> visit.title,
                                      visit_time |-> visit.visit_time,
                                      duration |-> duration]),
                     titles |-> IF visit.title # "" THEN old.titles \cup {visit.title}
                                ELSE old.titles]
         IN  AggregateDomains(Tail(vs), [base EXCEPT ![at] = new])

\* A variant that assigns total_duration instead of adding to it.
aggregate_by_domain_Assigns(vs) ==
    LET m == AggregateDomains(vs, <<>>)
    IN  [k \in 1..Len(m) |->
            [m[k] EXCEPT !.total_duration = m[k].urls[Len(m[k].urls)].duration]]

aggregate_by_domain(vs) == AggregateDomains(vs, <<>>)

(***************************************************************************)
(* aggregate_by_category: the ordered dict category -> aggregate, as a     *)
(* sequence in insertion order.                                            *)
(***************************************************************************)
CategoryIndex(category_data, category) ==
    IF \E j \in 1..Len(category_data) : category_data[j].category = category
    THEN CHOOSE j \in 1..Len(category_data) : category_data[j].category = category
    ELSE 0

\* A sort that puts a domain before the domains of the same duration.
RECURSIVE InsertByDuration_TiesFirst(_, _)
InsertByDuration_TiesFirst(sorted, d) ==
    IF Len(sorted) = 0 THEN <<d>>
    ELSE IF sorted[Len(sorted)].duration > d.duration THEN Append(sorted, d)
    ELSE Append(InsertByDuration_TiesFirst(SubSeq(sorted, 1, Len(sorted) - 1), d),
                sorted[Len(sorted)])

\* list.sort(key=duration, reverse=True): stable, descending.
RECURSIVE InsertByDuration(_, _)
InsertByDuration(sorted, d) ==
    IF Len(sorted) = 0 THEN <<d>>
    ELSE IF sorted[Len(sorted)].duration >= d.duration THEN Append(sorted, d)
    ELSE Append(InsertByDuration(SubSeq(sorted, 1, Len(sorted) - 1), d),
                sorted[Len(sorted)])

RECURSIVE SortedByDuration(_)
SortedByDuration(ds) ==
    IF Len(ds) = 0 THEN <<>>
    ELSE InsertByDuration(SortedByDuration(SubSeq(ds, 1, Len(ds) - 1)), ds[Len(ds)])

\* The accumulation loop (lines 205-223).
RECURSIVE AccumulateCategories(_, _, _)
AccumulateCategories(dd, cats, category_data) ==
    IF Len(dd) = 0 THEN category_data
    ELSE LET data == dd[1]
             category == IF data.domain \in DOMAIN cats THEN cats[data.domain]
                         ELSE "other"
             k == CategoryIndex(category_data, category)
             base == IF k = 0
                     THEN Append(category_data,
                                 [category |-> category, total_duration |-> 0,
                                  visit_count |-> 0, domains |-> <<>>])
                     ELSE category_data
             at == IF k = 0 THEN Len(base) ELSE k
             old == base[at]
             new == [category |-> category,
                     total_duration |-> old.total_duration + data.total_duration,
                     visit_count |-> old.visit_count + data.visit_count,
                     domains |-> Append(old.domains,
                                        [domain |-> data.domain,
                                         duration |-> data.total_duration,
                                         visit_count |-> data.visit_count,
                                         titles |-> data.titles])]
         IN  AccumulateCategories(Tail(dd), cats, [base EXCEPT ![at] = new])

\* A variant that skips the domains the mapping omits.
aggregate_by_category_SkipsUnmapped(dd, cats) ==
    LET Mapped(data) == data.domain \in DOMAIN cats
        category_data == AccumulateCategories(SelectSeq(dd, Mapped), cats, <<>>)
    IN  [j \in 1..Len(category_data) |->
            [category_data[j] EXCEPT !.domains = SortedByDuration(@)]]

aggregate_by_category(dd, cats) ==
    LET category_data == AccumulateCategories(dd, cats, <<>>)
    IN  [j \in 1..Len(category_data) |->
            [category_data[j] EXCEPT !.domains = SortedByDuration(@)]]

(***************************************************************************)
(* categorize_domains_with_ai as a function of its input and of the way    *)
(* the remote classifier answers every batch of the call.                  *)
(***************************************************************************)
\* The reply to a batch: an exception, a JSON scalar, a mapping that names
\* "Development" for the first domain of the batch, or a mapping that names
\* "gaming" for it and has keys outside the batch.
ModeOutcome(mode, batch) ==
    CASE mode = "fail" -> AiFail
      [] mode = "scalar" -> AiScalar
      [] mode = "alias" -> AiDict(ReplyMap(batch, "Development", "-", FALSE, FALSE))
      [] OTHER -> AiDict(ReplyMap(batch, "gaming", "-", FALSE, TRUE))

RECURSIVE CategorizeBatches(_, _, _, _)
CategorizeBatches(uncategorized, i, mode, categorization) ==
    IF i >= Len(uncategorized)
    THEN [raised |-> FALSE, categorization |-> categorization]
    ELSE LET batch == BatchAt(uncategorized, i)
             ai_results == batch_categorize_with_ai(ModeOutcome(mode, batch))
             r == MergeBatch(batch, ai_results, categorization)
         IN  IF r.raised THEN r
             ELSE CategorizeBatches(uncategorized, i + batch_size, mode,
                                    r.categorization)

categorize_domains_with_ai(dd, mode) ==
    LET first == FirstPass(dd, EmptyMap, <<>>)
    IN  CategorizeBatches(first.uncategorized, 0, mode, first.categorization)

\* list(set): some order of the titles.
RECURSIVE SetToSeq(_)
SetToSeq(S) ==
    IF S = {} THEN <<>>
    ELSE LET x == CHOOSE y \in S : TRUE IN <<x>> \o SetToSeq(S \ {x})

\* The (domain, data.get('titles', [])) pairs of a domain map.
DomainPairs(dm) == [k \in 1..Len(dm) |-> <<dm[k].domain, SetToSeq(dm[k].titles)>>]

(***************************************************************************)
(* Python exceptions: the classes that occur and `except` matching.        *)
(***************************************************************************)
ExcParent(kind) ==
    CASE kind \in {"FileNotFoundError", "PermissionError"} -> "OSError"
      [] kind \in {"OSError", "OperationalError", "TypeError", "OverflowError"}
            -> "Exception"
      [] kind = "Exception" -> "BaseException"
      [] OTHER -> "object"

RECURSIVE IsInstance(_, _)
IsInstance(kind, class) ==
    \/ kind = class
    \/ kind \notin {"BaseException", "object"} /\ IsInstance(ExcParent(kind), class)

(***************************************************************************)
(* The history store as read_history sees it.  A row is [url, title,       *)
(* visit_time]; visit_time is the local time the row's timestamp converts  *)
(* to, in ticks from the midnight that begins the day the request starts   *)
(* on (day 0; yesterday is day -1).  Every datetime.now() reads the clock, *)
(* which may have advanced since the previous reading.                     *)
(***************************************************************************)
DayTicks == 86400 * TicksPerSecond
HourTicks == 3600 * TicksPerSecond
\* The clock when a request starts: 10:00, or the last tick before midnight.
Now == 10 * HourTicks
LastTick == DayTicks - 1
ClockStarts == {Now, LastTick}

IsInternalUrl(url) ==
    url = "" \/ StartsWith(url, "chrome://") \/ StartsWith(url, "chrome-extension://")

\* ORDER BY visits.visit_time ASC
RECURSIVE RowsAscending(_)
RowsAscending(S) ==
    IF S = {} THEN <<>>
    ELSE LET r == CHOOSE x \in S : \A y \in S : x.visit_time <= y.visit_time
         IN  <<r>> \o RowsAscending(S \ {r})

\* The value read_history(hours) returns when nothing fails (lines 126-168).
ReadHistoryRows(store, hours, now) ==
    LET cutoff_time == now - hours * HourTicks
        rows == RowsAscending({r \in store : r.visit_time >= cutoff_time})
        Web(r) == ~IsInternalUrl(r.url)
    IN  SelectSeq(rows, Web)

(***************************************************************************)
(* browsing_stats.py: one day of get_daily_stats.                          *)
(***************************************************************************)
\* The calendar day of target_date = now - timedelta(days=day_offset) (line 26).
DateOf(now, day_offset) == (now - day_offset * DayTicks) \div DayTicks

\* target_date.replace(hour=0, ...) and .replace(hour=23, minute=59, ...).
StartOfDay(now, day_offset) == DateOf(now, day_offset) * DayTicks
EndOfDay(now, day_offset) == StartOfDay(now, day_offset) + DayTicks - 1

\* cat_name.replace('_', ' ')
RECURSIVE ReplaceUnderscores(_)
ReplaceUnderscores(name) ==
    IF Len(name) = 0 THEN ""
    ELSE (IF SubSeq(name, 1, 1) = "_" THEN " " ELSE SubSeq(name, 1, 1))
            \o ReplaceUnderscores(SubSeq(name, 2, Len(name)))

\* str.title(): a letter after a non-letter is upper-cased, the others lowered.
RECURSIVE TitleFrom(_, _)
TitleFrom(text, after_letter) ==
    IF Len(text) = 0 THEN ""
    ELSE LET c == SubSeq(text, 1, 1)
         IN  (IF after_letter THEN LowerChar(c) ELSE UpperChar(c))
                \o TitleFrom(SubSeq(text, 2, Len(text)), IsLetter(c))

DisplayName(cat_name) == TitleFrom(ReplaceUnderscores(cat_name), FALSE)

\* sorted(category_data.items(), key=total_duration, reverse=True)[0]: the
\* first entry, in dict order, with the largest total_duration.
TopIndex(category_data) ==
    CHOOSE c \in 1..Len(category_data) :
        /\ \A m \in 1..Len(category_data) :
            category_data[m].total_duration <= category_data[c].total_duration
        /\ \A m \in 1..(c - 1) :
            category_data[m].total_duration < category_data[c].total_duration

\* Position of name among the keys of an ordered dict of [name, ...], 0 if absent.
NameIndex(dict, name) ==
    IF \E j \in 1..Len(dict) : dict[j].name = name
    THEN CHOOSE j \in 1..Len(dict) : dict[j].name = name
    ELSE 0

\* The category_breakdown loop (lines 88-94), the dict as a sequence of
\* [name, time, visits] in insertion order: a later category with the same
\* display name replaces the value of the earlier one.
RECURSIVE CategoryBreakdown(_, _)
CategoryBreakdown(category_data, breakdown) ==
    IF Len(category_data) = 0 THEN breakdown
    ELSE LET cat_info == category_data[1]
             entry == [name |-> DisplayName(cat_info.category),
                       time |-> cat_info.total_duration,
                       visits |-> cat_info.visit_count]
             k == NameIndex(breakdown, entry.name)
         IN  CategoryBreakdown(Tail(category_data),
                IF k = 0 THEN Append(breakdown, entry)
                ELSE [breakdown EXCEPT ![k] = entry])

RECURSIVE SeqSum(_)
SeqSum(ns) == IF Len(ns) = 0 THEN 0 ELSE ns[1] + SeqSum(Tail(ns))

\* A DailyStat.  top_category is <<>> for None and <<[name, time]>> otherwise;
\* date is the calendar day of target_date; the percentages are left out.
ZeroStat(date) ==
    [date |-> date, total_time |-> 0, total_visits |-> 0, unique_sites |-> 0,
     top_category |-> <<>>, categories |-> <<>>, has_error |-> FALSE,
     error |-> ""]

ErrorStat(date, exc) ==
    [ZeroStat(date) EXCEPT !.has_error = TRUE, !.error = exc]

ReaderFaults ==
    {"OSError", "FileNotFoundError", "PermissionError", "OperationalError",
     "OverflowError"}

\* The top_category of a day (lines 71-85).
TopCategory(category_data) ==
    IF Len(category_data) = 0 THEN <<>>
    ELSE <<[name |-> DisplayName(category_data[TopIndex(category_data)].category),
            time |-> category_data[TopIndex(category_data)].total_duration]>>

\* The body of the try block for one day (lines 31-104), step by step; each
\* step hands its value to the next.  The result is [exc, stat], exc the
\* exception that leaves the try block ("none" if none).  classified tells
\* whether categorize_domains_with_ai was called.
\* Lines 66-104: the totals and the entry.
DayStat(date, total_visits, dm, category_data) ==
    [exc |-> "none", classified |-> TRUE,
     stat |-> [date |-> date,
               total_time |-> SeqSum([k \in 1..Len(dm) |-> dm[k].total_duration]),
               total_visits |-> total_visits,
               unique_sites |-> Len(dm),
               top_category |-> TopCategory(category_data),
               categories |-> CategoryBreakdown(category_data, <<>>),
               has_error |-> FALSE,
               error |-> ""]]

\* Lines 60-63: cz is what categorize_domains_with_ai did.
DayCategorized(date, total_visits, dm, cz) ==
    IF cz.raised
    THEN [exc |-> "TypeError", classified |-> TRUE, stat |-> ZeroStat(date)]
    ELSE DayStat(date, total_visits, dm,
                 aggregate_by_category(dm, cz.categorization))

\* Lines 57-60.
DayAggregated(date, total_visits, dm, mode) ==
    DayCategorized(date, total_visits, dm,
                   categorize_domains_with_ai(DomainPairs(dm), mode))

\* A loop body without the early `continue` for an empty day.
DayFiltered_NoEarlyContinue(date, day_visits, mode) ==
    DayAggregated(date, Len(day_visits),
                  aggregate_by_domain(estimate_visit_duration(day_visits)), mode)

\* Lines 40-57.
DayFiltered(date, day_visits, mode) ==
    IF Len(day_visits) = 0
    THEN [exc |-> "none", classified |-> FALSE, stat |-> ZeroStat(date)]
    ELSE DayAggregated(date, Len(day_visits),
                       aggregate_by_domain(estimate_visit_duration(day_visits)), mode)

\* Lines 35-38; now is the clock read at line 26.
DayVisits(all_visits, day_offset, now) ==
    LET InDay(v) == /\ StartOfDay(now, day_offset) <= v.visit_time
                    /\ v.visit_time <= EndOfDay(now, day_offset)
    IN  SelectSeq(all_visits, InDay)

\* fault is what goes wrong on that day: a reader fault, "TypeError" (the
\* classifier answers with a JSON scalar) or "none"; remote is the way the
\* classifier answers otherwise; now is the clock read at line 26 and
\* read_now the clock read_history reads (chrome_reader.py line 127).
DayBody(store, day_offset, fault, remote, now, read_now) ==
    IF fault \in ReaderFaults
    THEN [exc |-> fault, classified |-> FALSE,
          stat |-> ZeroStat(DateOf(now, day_offset))]
    ELSE DayFiltered(DateOf(now, day_offset),
                     DayVisits(ReadHistoryRows(store, 24 * (day_offset + 1), read_now),
                               day_offset, now),
                     IF fault = "TypeError" THEN "scalar" ELSE remote)

\* A handler that catches the operating-system errors only.
DailyStatsCatches_OSErrorOnly(exc) == IsInstance(exc, "OSError")

\* `except Exception` of get_daily_stats (line 106).
DailyStatsCatches(exc) == IsInstance(exc, "Exception")

\* The except clause applied to what the try block did (lines 106-118):
\* [exc, stat, caught, classified], exc the exception that leaves the function ("none" if
\* none), caught the exception the clause handled ("none" if none).
DayHandled(date, body) ==
    IF body.exc = "none"
    THEN [exc |-> "none", stat |-> body.stat, caught |-> "none",
          classified |-> body.classified]
    ELSE IF DailyStatsCatches(body.exc)
    THEN [exc |-> "none", stat |-> ErrorStat(date, body.exc), caught |-> body.exc,
          classified |-> body.classified]
    ELSE [exc |-> body.exc, stat |-> body.stat, caught |-> "none",
          classified |-> body.classified]

\* One iteration of the loop of get_daily_stats (lines 24-118).
DayIteration(store, day_offset, fault, remote, now, read_now) ==
    DayHandled(DateOf(now, day_offset),
               DayBody(store, day_offset, fault, remote, now, read_now))

(***************************************************************************)
(* browsing_stats.py: get_weekly_summary.                                  *)
(***************************************************************************)
WEEK_DAYS == 7

\* A loop that assigns a day's figures instead of adding them.
RECURSIVE AddDayCategories_Assigns(_, _)
AddDayCategories_Assigns(categories, all_categories) ==
    IF Len(categories) = 0 THEN all_categories
    ELSE LET cat_info == categories[1]
             k == NameIndex(all_categories, cat_info.name)
             base == IF k = 0
                     THEN Append(all_categories,
                                 [name |-> cat_info.name, time |-> 0, visits |-> 0])
                     ELSE all_categories
             at == IF k = 0 THEN Len(base) ELSE k
         IN  AddDayCategories_Assigns(Tail(categories),
                [base EXCEPT ![at].time = cat_info.time,
                             ![at].visits = cat_info.visits])

\* The all_categories loop (lines 140-146) over the categories of one day.
RECURSIVE AddDayCategories(_, _)
AddDayCategories(categories, all_categories) ==
    IF Len(categories) = 0 THEN all_categories
    ELSE LET cat_info == categories[1]
             k == NameIndex(all_categories, cat_info.name)
             base == IF k = 0
                     THEN Append(all_categories,
                                 [name |-> cat_info.name, time |-> 0, visits |-> 0])
                     ELSE all_categories
             at == IF k = 0 THEN Len(base) ELSE k
         IN  AddDayCategories(Tail(categories),
                [base EXCEPT ![at].time = @ + cat_info.time,
                             ![at].visits = @ + cat_info.visits])

RECURSIVE AllCategories(_, _)
AllCategories(stats, all_categories) ==
    IF Len(stats) = 0 THEN all_categories
    ELSE AllCategories(Tail(stats), AddDayCategories(stats[1].categories, all_categories))

\* sorted(all_categories.items(), key=time, reverse=True)[0]
TopNameIndex(all_categories) ==
    CHOOSE c \in 1..Len(all_categories) :
        /\ \A m \in 1..Len(all_categories) :
            all_categories[m].time <= all_categories[c].time
        /\ \A m \in 1..(c - 1) : all_categories[m].time < all_categories[c].time

\* The top_category of the week (lines 149-163).
WeeklyTopCategory(all_categories) ==
    IF Len(all_categories) = 0 THEN <<>>
    ELSE <<[name |-> all_categories[TopNameIndex(all_categories)].name,
            time |-> all_categories[TopNameIndex(all_categories)].time]>>

\* A summary that averages over the days that have data.
WeeklyRecord_DividesByDaysWithData(stats, total_time, total_visits, all_categories) ==
    [period |-> "Last 7 Days",
     total_time |-> total_time,
     total_visits |-> total_visits,
     avg_daily_time |->
        IF Cardinality({k \in 1..Len(stats) : stats[k].total_visits > 0}) > 0
        THEN [num |-> total_time,
              den |-> Cardinality({k \in 1..Len(stats) : stats[k].total_visits > 0})]
        ELSE [num |-> 0, den |-> 1],
     days_with_data |-> Cardinality({k \in 1..Len(stats) : stats[k].total_visits > 0}),
     top_category |-> WeeklyTopCategory(all_categories),
     categories |-> all_categories,
     daily_breakdown |-> stats,
     has_error |-> FALSE,
     error |-> ""]

\* The returned dict (lines 165-174).  avg_daily_time is the fraction num/den.
WeeklyRecord(stats, total_time, total_visits, all_categories) ==
    [period |-> "Last 7 Days",
     total_time |-> total_time,
     total_visits |-> total_visits,
     avg_daily_time |-> IF Len(stats) > 0 THEN [num |-> total_time, den |-> 7]
                        ELSE [num |-> 0, den |-> 1],
     days_with_data |-> Cardinality({k \in 1..Len(stats) : stats[k].total_visits > 0}),
     top_category |-> WeeklyTopCategory(all_categories),
     categories |-> all_categories,
     daily_breakdown |-> stats,
     has_error |-> FALSE,
     error |-> ""]

\* The try block of get_weekly_summary after get_daily_stats returned (lines
\* 134-174).
WeeklySummary(stats) ==
    WeeklyRecord(stats,
                 SeqSum([k \in 1..Len(stats) |-> stats[k].total_time]),
                 SeqSum([k \in 1..Len(stats) |-> stats[k].total_visits]),
                 AllCategories(stats, <<>>))

\* The except branch of get_weekly_summary (lines 176-187).
ErrorSummary(exc) ==
    [period |-> "Last 7 Days", total_time |-> 0, total_visits |-> 0,
     avg_daily_time |-> [num |-> 0, den |-> 1], days_with_data |-> 0,
     top_category |-> <<>>, categories |-> <<>>, daily_breakdown |-> <<>>,
     has_error |-> TRUE, error |-> exc]

\* `except Exception` of get_weekly_summary (line 176).
WeeklyCatches(exc) == IsInstance(exc, "Exception")

(***************************************************************************)
(* commands/daily_review/__init__.py: handle_daily_review.                 *)
(***************************************************************************)
Digits == <<"0", "1", "2", "3", "4", "5", "6", "7", "8", "9">>
IsDigit(c) == \E i \in 1..Len(Digits) : Digits[i] = c
DigitValue(c) == (CHOOSE i \in 1..Len(Digits) : Digits[i] = c) - 1

\* int(text) of a run of digits.
RECURSIVE ParseInt(_)
ParseInt(text) ==
    IF Len(text) = 0 THEN 0
    ELSE ParseInt(SubSeq(text, 1, Len(text) - 1)) * 10
            + DigitValue(SubSeq(text, Len(text), Len(text)))

\* The end of the longest run of digits that starts at i.
RunEnd(text, i) ==
    CHOOSE j \in i..Len(text) :
        /\ \A m \in i..j : IsDigit(SubSeq(text, m, m))
        /\ (j = Len(text) \/ ~IsDigit(SubSeq(text, j + 1, j + 1)))

\* The first position from j on that holds no white space.
AfterSpaces(text, j) ==
    CHOOSE k \in j..(Len(text) + 1) :
        /\ \A m \in j..(k - 1) : SubSeq(text, m, m) \in {" ", "\t"}
        /\ (k = Len(text) + 1 \/ SubSeq(text, k, k) \notin {" ", "\t"})

DayWordAt(text, k) == k + 2 <= Len(text) /\ SubSeq(text, k, k + 2) = "day"

\* (\d+)\s*days? matches at i.
MatchAt(text, i) ==
    /\ IsDigit(SubSeq(text, i, i))
    /\ DayWordAt(text, AfterSpaces(text, RunEnd(text, i) + 1))

FirstMatch(text, i) == ParseInt(SubSeq(text, i, RunEnd(text, i)))

LeftmostMatch(text, starts) ==
    IF starts = {} THEN -1
    ELSE FirstMatch(text, CHOOSE a \in starts : \A b \in starts : a <= b)

\* re.search(r'(\d+)\s*days?', text): the number of the leftmost match, -1 if
\* there is no match.
RegexDays(text) == LeftmostMatch(text, {i \in 1..Len(text) : MatchAt(text, i)})

\* Lines 97-101: `if match: return int(match.group(1)) * 24`, else line 104.
HoursOfMatch(days) == IF days # -1 THEN days * 24 ELSE 24

\* Lines 88-104 on the lower-cased argument.
HoursFor(args_lower) ==
    IF Contains(args_lower, "yesterday") THEN 48
    ELSE IF Contains(args_lower, "week") THEN 168
    ELSE IF Contains(args_lower, "days") THEN HoursOfMatch(RegexDays(args_lower))
    ELSE 24

\* _parse_time_range (lines 79-104).
ParseTimeRange(args) == HoursFor(Lower(args))

\* The try block of handle_daily_review (lines 29-61), step by step: [exc,
\* result].
ReviewCategorized(hours, cz) ==
    IF cz.raised
    THEN [exc |-> "TypeError", result |-> [kind |-> "none", hours |-> hours]]
    ELSE [exc |-> "none", result |-> [kind |-> "report", hours |-> hours]]

ReviewAggregated(hours, dm, mode) ==
    ReviewCategorized(hours, categorize_domains_with_ai(DomainPairs(dm), mode))

ReviewRead(hours, all_visits, mode) ==
    IF Len(all_visits) = 0
    THEN [exc |-> "none", result |-> [kind |-> "no_history", hours |-> hours]]
    ELSE ReviewAggregated(hours,
            aggregate_by_domain(estimate_visit_duration(all_visits)), mode)

ReviewParsed(store, hours, fault, remote, read_now) ==
    IF fault \in ReaderFaults
    THEN [exc |-> fault, result |-> [kind |-> "none", hours |-> hours]]
    ELSE ReviewRead(hours, ReadHistoryRows(store, hours, read_now),
                    IF fault = "TypeError" THEN "scalar" ELSE remote)

ReviewBody(store, args, fault, remote, read_now) ==
    ReviewParsed(store, ParseTimeRange(args), fault, remote, read_now)

\* The clauses with the general one first.
ReviewHandler_ExceptionFirst(exc) ==
    IF IsInstance(exc, "Exception") THEN "error"
    ELSE IF IsInstance(exc, "FileNotFoundError") THEN "not_found"
    ELSE IF IsInstance(exc, "PermissionError") THEN "permission"
    ELSE "propagate"

\* The except clauses of handle_daily_review (lines 63-76), in order: the kind
\* of message returned, or "propagate" when no clause matches.
ReviewHandler(exc) ==
    IF IsInstance(exc, "FileNotFoundError") THEN "not_found"
    ELSE IF IsInstance(exc, "PermissionError") THEN "permission"
    ELSE IF IsInstance(exc, "Exception") THEN "error"
    ELSE "propagate"

\* What handle_daily_review hands to its caller (lines 61-76).
ReviewHandled(body, handler) ==
    IF body.exc = "none" THEN [kind |-> "message", value |-> body.result]
    ELSE IF handler = "propagate" THEN [kind |-> "raised", value |-> body.exc]
    ELSE [kind |-> "message",
          value |-> [kind |-> handler, hours |-> body.result.hours]]

ReviewOutcome(body) ==
    [caught |-> body.exc, result |-> ReviewHandled(body, ReviewHandler(body.exc))]

(***************************************************************************)
(* Inputs of the categorizer: a few domains the pattern table or the title *)
(* keywords decide, one they do not, and up to MaxFiller pattern-free      *)
(* domains without titles.                                                 *)
(***************************************************************************)
KnownSites ==
    << <<"youtube.com", <<"Cats - YouTube">> >>,
       <<"GitHub.com", <<>> >>,
       <<"example.org", <<"Intro", "Watch Trailer">> >>,
       <<"example.net", <<"Intro">> >>,
       <<"dropbox.com", <<>> >>,
       <<"netflix.com", <<>> >>,
       <<"Mail.Google.com", <<"Inbox">> >>,
       <<"blog.example", <<"One", "Two", "Three", "Four">> >> >>

KnownChoices == { <<>>, <<1, 4>>, <<2, 3, 4>>, <<4, 5>>, <<1, 2, 3, 4, 5>>, <<6, 7, 8>> }

FillerName(j) == "s" \o Digits[(j \div 10) + 1] \o Digits[(j % 10) + 1] \o ".org"
Filler(n) == [j \in 1..n |-> <<FillerName(j), <<>> >>]

CatInputs ==
    { IF known_last THEN Filler(n) \o [j \in 1..Len(c) |-> KnownSites[c[j]]]
      ELSE [j \in 1..Len(c) |-> KnownSites[c[j]]] \o Filler(n) :
        c \in KnownChoices, n \in 0..MaxFiller, known_last \in BOOLEAN }

(***************************************************************************)
(* Inputs of the visit analyzer: pages of three sites, at times whose gaps *)
(* are 0, a fraction of a second, 60 s (the duration of a final visit),    *)
(* 600 s, exactly 1800 s, 1801 s and more.                                 *)
(***************************************************************************)
Page(url, title, seconds, ticks) ==
    [url |-> url, title |-> title, visit_time |-> seconds * TicksPerSecond + ticks]

VisitCatalog ==
    { Page("https://www.example.com/a", "Home", 0, 0),
      Page("https://example.com/b?q=1", "", 0, 1),
      Page("https://video.net/watch", "Clip - YouTube", 0, 1),
      Page("https://docs.site/x", "Docs", 60, 0),
      Page("https://www.example.com/a", "Home", 600, 0),
      Page("https://video.net/watch", "Clip - YouTube", 600, 0),
      Page("https://example.com/b?q=1", "", 2400, 0),
      Page("https://www.example.com/a", "Home", 4201, 0),
      Page("https://video.net/watch", "Clip - YouTube", 4201, 0) }

VisitInputs == UNION { [1..n -> VisitCatalog] : n \in 1..MaxVisits }

\* Categorizations handed to aggregate_by_category: any mapping of some of
\* the domains to a category name.
CategorizationsOf(domains) ==
    UNION { [S -> {"video", "other"}] : S \in SUBSET domains }

(***************************************************************************)
(* State.                                                                  *)
(***************************************************************************)
(***************************************************************************)
(* app.py: the route /api/browsing-history/daily.                          *)
(***************************************************************************)
DEFAULT_DAYS == 7
DAYS_CAP == 30

\* Lines 289-290: request.args.get('days', default=7, type=int), min(days, 30).
RouteDays(param) ==
    IF Len(param) = 0 THEN DEFAULT_DAYS
    ELSE IF param[1] <= DAYS_CAP THEN param[1] ELSE DAYS_CAP

\* `except Exception` of get_daily_browsing_stats (line 294).
RouteCatches(exc) == IsInstance(exc, "Exception")

(***************************************************************************)
(* Inputs of the statistics entry points: history stores and arguments.    *)
(***************************************************************************)
\* A row visited `days_ago` days before today at h:m:s and `ticks` ticks.
Row(url, title, days_ago, h, m, sec, ticks) ==
    [url |-> url, title |-> title,
     visit_time |-> ((h * 60 + m) * 60 + sec) * TicksPerSecond + ticks
                        - days_ago * DayTicks]

RowHome == Row("https://www.example.com/a", "Home", 0, 9, 0, 0, 0)
RowClip == Row("https://video.net/watch", "Clip - YouTube", 0, 9, 5, 0, 0)
RowSettings == Row("chrome://settings", "Settings", 0, 9, 1, 0, 0)
RowRepo == Row("https://github.com/x", "Repo", 1, 23, 59, 59, TicksPerSecond - 1)
RowMorning == Row("https://s01.org/", "", 1, 8, 0, 0, 0)
RowOld == Row("https://www.example.com/a", "Home", 2, 12, 0, 0, 0)
RowMidnight == Row("https://example.com/b?q=1", "", 0, 0, 0, 0, 0)

Stores ==
    { {},
      {RowSettings},
      {RowHome, RowClip, RowSettings},
      {RowMidnight, RowRepo, RowMorning},
      {RowHome, RowRepo, RowOld},
      {RowHome, RowClip, RowSettings, RowRepo, RowMorning, RowOld, RowMidnight} }

ReviewArgs == {"", "Yesterday", "this week", "last 3 days", "12  Days ago", "days"}

\* What can go wrong in a request: a failure of the history reader, or a
\* classifier reply that is JSON but not an object.
FaultKinds == ReaderFaults \cup {"TypeError"}

\* How the classifier answers when nothing goes wrong: not at all, or with an
\* object for part of the batch.
RemoteModes == {"fail", "partial"}

\* For get_daily_stats, whose entries carry the breakdown by display name:
\* also with a category name that differs from a known one by letter case.
DailyRemoteModes == RemoteModes \cup {"alias"}

\* The days parameters the route is called with.
RouteParams == {<<>>, <<-1>>, <<0>>, <<MaxDays>>, <<DAYS_CAP>>, <<DAYS_CAP + 1>>}

\* The clock advances by whole seconds, by at most MaxClockSeconds in a request.
ClockTicks == {n * TicksPerSecond : n \in 0..MaxClockSeconds}

VARIABLES
    \* the entry points get_daily_stats, get_weekly_summary, handle_daily_review
    st_entry,         \* the entry point called
    st_days,          \* the argument days of get_daily_stats
    st_args,          \* the argument args of handle_daily_review
    st_store,         \* the rows of the history store
    st_fault_kind,    \* the kind of failure this request can meet
    st_remote,        \* how the classifier answers otherwise
    day_offset,       \* the loop variable of get_daily_stats
    daily_stats,      \* the list under construction
    st_faults,        \* per day processed: the exception its try block raised
    st_result,        \* [kind, value]: what the entry point returned or raised
    st_pc,            \* "route", "loop", "done"
    st_param,         \* the query parameter days of the route: <<>> or <<n>>
    st_now,           \* the clock
    st_deadline,      \* the clock does not advance beyond it in this request
    st_classified,    \* per day processed: categorize_domains_with_ai was called
    \* the visit analyzer and aggregate_by_category
    visits,           \* the visit list handed to estimate_visit_duration
    annotated,        \* its result
    domain_map,       \* the result of aggregate_by_domain
    cat_arg,          \* the categorization handed to aggregate_by_category
    category_data,    \* the result of aggregate_by_category
    va_pc,            \* "start", "estimated", "aggregated", "categorized"
    \* categorize_domains_with_ai
    domain_data,      \* the input, <<domain, titles>> in dict order
    categorization,   \* the mapping under construction
    uncategorized,    \* the domains the first pass deferred
    batch_i,          \* the loop variable i of the batch loop
    ai_results,       \* what batch_categorize_with_ai returned for the batch
    cat_pc,           \* "start", "loop", "merge", "returned", "raised"
    responses,        \* the remote outcome of every batch so far
    requests,         \* what every call of batch_categorize_with_ai was given
    \* read_history and the file system it works on
    platform_system,  \* platform.system()
    store_exists,     \* os.path.exists(path) of the Chrome History file
    tmp_files,        \* the temporary files that exist
    tmp_copied,       \* those that hold a complete copy of the store
    next_tmp,         \* the next name mkstemp hands out
    rd_pc,            \* per invocation: "start", "mkstemp", "copy", "query",
                      \* "finally", "returned", "raised"
    rd_temp,          \* per invocation: the file its mkstemp created, 0 if none
    rd_exc,           \* per invocation: the exception in flight, "none" if none
    rd_read_from,     \* per invocation: the file its query read, 0 if none
    rd_remove_failed, \* per invocation: os.remove raised OSError
    \* the query and conversion loop of read_history
    rh_store,         \* the rows of visits JOIN urls in the copy
    rh_hours,         \* the argument hours
    rh_far_exc,       \* what fromtimestamp raises for an integer out of range
    rh_clock,         \* the clock
    rh_now,           \* the clock as read at line 127
    rh_rows,          \* cursor.fetchall()
    rh_i,             \* position of the row loop in rh_rows
    rh_visits,        \* the list under construction
    rh_exc,           \* the exception that left the loop, "none" if none
    rh_pc,            \* "start", "rows", "returned", "raised"
    \* generate_report
    rp_visits,        \* the argument visits
    rp_domain_data,   \* the argument domain_data, an ordered dict
    rp_categories,    \* the argument categories
    rp_today,         \* what strftime gives for today
    rp_category_data, \* aggregate_by_category's value
    rp_parts,         \* report_parts, every part a list of lines
    rp_pc,            \* "start", "header", "summary", "breakdown", "video",
                      \* "insights", "join", "returned"
    \* route_command
    cm_content,       \* the message content
    cm_handler,       \* what the command's handler does when called
    cm_parsed,        \* parse_command's value
    cm_result,        \* what route_command returned or raised
    cm_pc             \* "start", "parsed", "returned", "raised"

cat_vars == <<domain_data, categorization, uncategorized, batch_i, ai_results,
              cat_pc, responses, requests>>

va_vars == <<visits, annotated, domain_map, cat_arg, category_data, va_pc>>

rd_vars == <<platform_system, store_exists, tmp_files, tmp_copied, next_tmp,
             rd_pc, rd_temp, rd_exc, rd_read_from, rd_remove_failed>>

st_vars == <<st_entry, st_days, st_args, st_store, st_fault_kind, st_remote,
             day_offset, daily_stats, st_faults, st_result, st_pc, st_param,
             st_now, st_deadline, st_classified>>

rh_vars == <<rh_store, rh_hours, rh_far_exc, rh_clock, rh_now, rh_rows, rh_i,
             rh_visits, rh_exc, rh_pc>>

rp_vars == <<rp_visits, rp_domain_data, rp_categories, rp_today, rp_category_data,
             rp_parts, rp_pc>>

cm_vars == <<cm_content, cm_handler, cm_parsed, cm_result, cm_pc>>

vars == <<cat_vars, va_vars, rd_vars, st_vars, rh_vars, rp_vars, cm_vars>>

\* What the actions of one component leave alone.
not_cat_vars == <<va_vars, rd_vars, st_vars, rh_vars, rp_vars, cm_vars>>
not_va_vars == <<cat_vars, rd_vars, st_vars, rh_vars, rp_vars, cm_vars>>
not_rd_vars == <<cat_vars, va_vars, st_vars, rh_vars, rp_vars, cm_vars>>
not_st_vars == <<cat_vars, va_vars, rd_vars, rh_vars, rp_vars, cm_vars>>
not_rh_vars == <<cat_vars, va_vars, rd_vars, st_vars, rp_vars, cm_vars>>
not_rp_vars == <<cat_vars, va_vars, rd_vars, st_vars, rh_vars, cm_vars>>
not_cm_vars == <<cat_vars, va_vars, rd_vars, st_vars, rh_vars, rp_vars>>

CatIdle ==
    /\ domain_data = <<>>
    /\ categorization = EmptyMap
    /\ uncategorized = <<>>
    /\ batch_i = 0
    /\ ai_results = AiDict(EmptyMap)
    /\ cat_pc = "idle"
    /\ responses = <<>>
    /\ requests = <<>>

VaIdle ==
    /\ visits = <<>>
    /\ annotated = <<>>
    /\ domain_map = <<>>
    /\ cat_arg = EmptyMap
    /\ category_data = <<>>
    /\ va_pc = "idle"

Readers == 1..NumReaders

RdIdle ==
    /\ platform_system = "Linux"
    /\ store_exists = TRUE
    /\ tmp_files = {}
    /\ tmp_copied = {}
    /\ next_tmp = 1
    /\ rd_pc = [p \in Readers |-> "idle"]
    /\ rd_temp = [p \in Readers |-> 0]
    /\ rd_exc = [p \in Readers |-> "none"]
    /\ rd_read_from = [p \in Readers |-> 0]
    /\ rd_remove_failed = [p \in Readers |-> FALSE]

NoResult == [kind |-> "none", value |-> ""]

StIdle ==
    /\ st_entry = "none"
    /\ st_days = 0
    /\ st_args = ""
    /\ st_store = {}
    /\ st_fault_kind = "OSError"
    /\ st_remote = "fail"
    /\ day_offset = 0
    /\ daily_stats = <<>>
    /\ st_faults = <<>>
    /\ st_result = NoResult
    /\ st_pc = "idle"
    /\ st_param = <<>>
    /\ st_now = 0
    /\ st_deadline = 0
    /\ st_classified = <<>>

RhIdle ==
    /\ rh_store = {}
    /\ rh_hours = 0
    /\ rh_far_exc = "ValueError"
    /\ rh_clock = 0
    /\ rh_now = 0
    /\ rh_rows = <<>>
    /\ rh_i = 0
    /\ rh_visits = <<>>
    /\ rh_exc = "none"
    /\ rh_pc = "idle"

RpIdle ==
    /\ rp_visits = <<>>
    /\ rp_domain_data = <<>>
    /\ rp_categories = <<>>
    /\ rp_today = ""
    /\ rp_category_data = <<>>
    /\ rp_parts = <<>>
    /\ rp_pc = "idle"

CmIdle ==
    /\ cm_content = ""
    /\ cm_handler = "returns"
    /\ cm_parsed = [command |-> "", args |-> ""]
    /\ cm_result = NoResult
    /\ cm_pc = "idle"

(***************************************************************************)
(* categorize_domains_with_ai as a process.                                *)
(***************************************************************************)
CatInit ==
    /\ domain_data \in CatInputs
    /\ categorization = EmptyMap
    /\ uncategorized = <<>>
    /\ batch_i = 0
    /\ ai_results = AiDict(EmptyMap)
    /\ cat_pc = "start"
    /\ responses = <<>>
    /\ requests = <<>>
    /\ VaIdle
    /\ RdIdle
    /\ StIdle
    /\ RhIdle
    /\ RpIdle
    /\ CmIdle

CatFirstPass ==
    /\ cat_pc = "start"
    /\ LET r == FirstPass(domain_data, EmptyMap, <<>>)
       IN  /\ categorization' = r.categorization
           /\ uncategorized' = r.uncategorized
    /\ cat_pc' = "loop"
    /\ UNCHANGED <<domain_data, batch_i, ai_results, responses, requests, not_cat_vars>>

CatCallRemote ==
    /\ cat_pc = "loop"
    /\ batch_i < Len(uncategorized)
    /\ \E outcome \in RemoteOutcomes(BatchAt(uncategorized, batch_i)) :
        /\ ai_results' = batch_categorize_with_ai(outcome)
        /\ responses' = Append(responses, outcome)
    /\ requests' = Append(requests,
                          [batch |-> BatchAt(uncategorized, batch_i),
                           domain_list |-> DomainList(BatchAt(uncategorized, batch_i))])
    /\ cat_pc' = "merge"
    /\ UNCHANGED <<domain_data, categorization, uncategorized, batch_i, not_cat_vars>>

CatMerge ==
    /\ cat_pc = "merge"
    /\ LET r == MergeBatch(BatchAt(uncategorized, batch_i), ai_results, categorization)
       IN  /\ categorization' = r.categorization
           /\ cat_pc' = IF r.raised THEN "raised" ELSE "loop"
    /\ batch_i' = batch_i + batch_size
    /\ UNCHANGED <<domain_data, uncategorized, ai_results, responses, requests,
                   not_cat_vars>>

CatReturn ==
    /\ cat_pc = "loop"
    /\ batch_i >= Len(uncategorized)
    /\ cat_pc' = "returned"
    /\ UNCHANGED <<domain_data, categorization, uncategorized, batch_i, ai_results,
                   responses, requests, not_cat_vars>>

CatNext == CatFirstPass \/ CatCallRemote \/ CatMerge \/ CatReturn

CatSpec == CatInit /\ [][CatNext]_vars

(***************************************************************************)
(* The visit analyzer as a process: estimate_visit_duration, then          *)
(* aggregate_by_domain, then aggregate_by_category.                        *)
(***************************************************************************)
VaInit ==
    /\ visits \in VisitInputs
    /\ annotated = <<>>
    /\ domain_map = <<>>
    /\ cat_arg = EmptyMap
    /\ category_data = <<>>
    /\ va_pc = "start"
    /\ CatIdle
    /\ RdIdle
    /\ StIdle
    /\ RhIdle
    /\ RpIdle
    /\ CmIdle

VaEstimate ==
    /\ va_pc = "start"
    /\ annotated' = estimate_visit_duration(visits)
    /\ va_pc' = "estimated"
    /\ UNCHANGED <<visits, domain_map, cat_arg, category_data, not_va_vars>>

VaAggregateByDomain ==
    /\ va_pc = "estimated"
    /\ domain_map' = aggregate_by_domain(annotated)
    /\ va_pc' = "aggregated"
    /\ UNCHANGED <<visits, annotated, cat_arg, category_data, not_va_vars>>

VaAggregateByCategory ==
    /\ va_pc = "aggregated"
    /\ \E cats \in CategorizationsOf({domain_map[j].domain : j \in 1..Len(domain_map)}) :
        /\ cat_arg' = cats
        /\ category_data' = aggregate_by_category(domain_map, cats)
    /\ va_pc' = "categorized"
    /\ UNCHANGED <<visits, annotated, domain_map, not_va_vars>>

VaNext == VaEstimate \/ VaAggregateByDomain \/ VaAggregateByCategory

VaSpec == VaInit /\ [][VaNext]_vars

(***************************************************************************)
(* chrome_reader.py: read_history, one process per invocation.             *)
(***************************************************************************)
SupportedSystems == {"Darwin", "Windows", "Linux"}

\* get_chrome_history_path (lines 16-44).
RdGetPath(p) ==
    /\ rd_pc[p] = "start"
    /\ IF platform_system \notin SupportedSystems
       THEN /\ rd_pc' = [rd_pc EXCEPT ![p] = "raised"]
            /\ rd_exc' = [rd_exc EXCEPT ![p] = "OSError"]
       ELSE IF ~store_exists
       THEN /\ rd_pc' = [rd_pc EXCEPT ![p] = "raised"]
            /\ rd_exc' = [rd_exc EXCEPT ![p] = "FileNotFoundError"]
       ELSE /\ rd_pc' = [rd_pc EXCEPT ![p] = "mkstemp"]
            /\ UNCHANGED rd_exc
    /\ UNCHANGED <<platform_system, store_exists, tmp_files, tmp_copied, next_tmp,
                   rd_temp, rd_read_from, rd_remove_failed, not_rd_vars>>

\* An invocation that writes its copy to one fixed path instead of a fresh one.
RdMkstemp_SharedName(p) ==
    /\ rd_pc[p] = "mkstemp"
    /\ tmp_files' = tmp_files \cup {1}
    /\ rd_temp' = [rd_temp EXCEPT ![p] = 1]
    /\ rd_pc' = [rd_pc EXCEPT ![p] = "copy"]
    /\ UNCHANGED <<platform_system, store_exists, tmp_copied, next_tmp, rd_exc,
                   rd_read_from, rd_remove_failed, not_rd_vars>>

\* copy_history_database, tempfile.mkstemp (lines 62-65): a new file, or an
\* OSError that the except clause turns into PermissionError.
RdMkstemp(p) ==
    /\ rd_pc[p] = "mkstemp"
    /\ \/ /\ tmp_files' = tmp_files \cup {next_tmp}
          /\ rd_temp' = [rd_temp EXCEPT ![p] = next_tmp]
          /\ next_tmp' = next_tmp + 1
          /\ rd_pc' = [rd_pc EXCEPT ![p] = "copy"]
          /\ UNCHANGED rd_exc
       \/ /\ rd_pc' = [rd_pc EXCEPT ![p] = "raised"]
          /\ rd_exc' = [rd_exc EXCEPT ![p] = "PermissionError"]
          /\ UNCHANGED <<tmp_files, rd_temp, next_tmp>>
    /\ UNCHANGED <<platform_system, store_exists, tmp_copied, rd_read_from,
                   rd_remove_failed, not_rd_vars>>

\* copy_history_database, shutil.copy2 (lines 67-75): the copy completes, or
\* an IOError/OSError is turned into PermissionError and leaves the function.
RdCopy(p) ==
    /\ rd_pc[p] = "copy"
    /\ \/ /\ tmp_copied' = tmp_copied \cup {rd_temp[p]}
          /\ rd_pc' = [rd_pc EXCEPT ![p] = "query"]
          /\ UNCHANGED rd_exc
       \/ /\ rd_pc' = [rd_pc EXCEPT ![p] = "raised"]
          /\ rd_exc' = [rd_exc EXCEPT ![p] = "PermissionError"]
          /\ UNCHANGED tmp_copied
    /\ UNCHANGED <<platform_system, store_exists, tmp_files, next_tmp, rd_temp,
                   rd_read_from, rd_remove_failed, not_rd_vars>>

\* The try block of read_history (lines 121-168): connect to temp_db_path,
\* query, convert the rows; any of them may raise.
RdQuery(p) ==
    /\ rd_pc[p] = "query"
    /\ \/ /\ rd_read_from' = [rd_read_from EXCEPT ![p] = rd_temp[p]]
          /\ UNCHANGED rd_exc
       \/ /\ rd_exc' = [rd_exc EXCEPT ![p] = "OperationalError"]
          /\ UNCHANGED rd_read_from
       \/ /\ rd_read_from' = [rd_read_from EXCEPT ![p] = rd_temp[p]]
          /\ rd_exc' = [rd_exc EXCEPT ![p] = "OverflowError"]
    /\ rd_pc' = [rd_pc EXCEPT ![p] = "finally"]
    /\ UNCHANGED <<platform_system, store_exists, tmp_files, tmp_copied, next_tmp,
                   rd_temp, rd_remove_failed, not_rd_vars>>

\* The finally block (lines 170-175): os.remove, its OSError ignored; then the
\* function returns or the exception in flight goes on.
RdFinally(p) ==
    /\ rd_pc[p] = "finally"
    /\ \/ /\ tmp_files' = tmp_files \ {rd_temp[p]}
          /\ tmp_copied' = tmp_copied \ {rd_temp[p]}
          /\ UNCHANGED rd_remove_failed
       \/ /\ rd_remove_failed' = [rd_remove_failed EXCEPT ![p] = TRUE]
          /\ UNCHANGED <<tmp_files, tmp_copied>>
    /\ rd_pc' = [rd_pc EXCEPT ![p] = IF rd_exc[p] = "none" THEN "returned" ELSE "raised"]
    /\ UNCHANGED <<platform_system, store_exists, next_tmp, rd_temp, rd_exc,
                   rd_read_from, not_rd_vars>>

RdInit ==
    /\ platform_system \in {"Darwin", "Windows", "Linux", "FreeBSD"}
    /\ store_exists \in BOOLEAN
    /\ tmp_files = {}
    /\ tmp_copied = {}
    /\ next_tmp = 1
    /\ rd_pc = [p \in Readers |-> "start"]
    /\ rd_temp = [p \in Readers |-> 0]
    /\ rd_exc = [p \in Readers |-> "none"]
    /\ rd_read_from = [p \in Readers |-> 0]
    /\ rd_remove_failed = [p \in Readers |-> FALSE]
    /\ CatIdle
    /\ VaIdle
    /\ StIdle
    /\ RhIdle
    /\ RpIdle
    /\ CmIdle

RdNext ==
    \E p \in Readers :
        RdGetPath(p) \/ RdMkstemp(p) \/ RdCopy(p) \/ RdQuery(p) \/ RdFinally(p)

RdSpec == RdInit /\ [][RdNext]_vars

(***************************************************************************)
(* The entry points as a process: one request, its loop over the days and  *)
(* its return.                                                             *)
(***************************************************************************)
\* A request of more than MaxDays days is explored in a reduced environment:
\* the week with a clock that stands still, the route with an empty store and
\* no failures.
StInit ==
    /\ st_entry \in {"get_daily_stats", "get_weekly_summary", "handle_daily_review",
                     "get_daily_browsing_stats"}
    /\ st_param \in IF st_entry = "get_daily_browsing_stats" THEN RouteParams ELSE {<<>>}
    /\ st_days \in IF st_entry = "get_daily_stats" THEN 0..MaxDays
                   ELSE IF st_entry = "get_weekly_summary" THEN {WEEK_DAYS}
                   ELSE {0}
    /\ st_args \in IF st_entry = "handle_daily_review" THEN ReviewArgs ELSE {""}
    /\ st_store \in IF st_entry = "get_daily_browsing_stats" /\ RouteDays(st_param) > MaxDays
                    THEN {{}} ELSE Stores
    /\ st_fault_kind \in IF st_entry = "get_daily_browsing_stats"
                            /\ RouteDays(st_param) > MaxDays
                         THEN {"none"} ELSE FaultKinds
    /\ st_remote \in IF st_entry = "get_daily_stats" THEN DailyRemoteModes
                     ELSE RemoteModes
    /\ st_now \in ClockStarts
    /\ st_deadline = IF st_entry = "get_weekly_summary" THEN st_now
                     ELSE st_now + MaxClockSeconds * TicksPerSecond
    /\ day_offset = 0
    /\ daily_stats = <<>>
    /\ st_faults = <<>>
    /\ st_classified = <<>>
    /\ st_result = NoResult
    /\ st_pc = IF st_entry = "get_daily_browsing_stats" THEN "route" ELSE "loop"
    /\ CatIdle
    /\ VaIdle
    /\ RdIdle
    /\ RhIdle
    /\ RpIdle
    /\ CmIdle

\* get_daily_browsing_stats up to its call of get_daily_stats (lines 288-292).
StRouteCall ==
    /\ st_pc = "route"
    /\ st_days' = RouteDays(st_param)
    /\ st_pc' = "loop"
    /\ UNCHANGED <<st_entry, st_args, st_store, st_fault_kind, st_remote, day_offset,
                   daily_stats, st_faults, st_result, st_param, st_now, st_deadline,
                   st_classified>>
    /\ UNCHANGED not_st_vars

\* What one iteration does to the request, iter being DayIteration's value.
StDayApply(iter) ==
    IF iter.exc = "none"
    THEN /\ daily_stats' = Append(daily_stats, iter.stat)
         /\ st_faults' = Append(st_faults, iter.caught)
         /\ st_classified' = Append(st_classified, iter.classified)
         /\ day_offset' = day_offset + 1
         /\ UNCHANGED <<st_result, st_pc>>
    ELSE /\ st_result' =
                IF st_entry = "get_weekly_summary" /\ WeeklyCatches(iter.exc)
                THEN [kind |-> "summary", value |-> ErrorSummary(iter.exc)]
                ELSE IF st_entry = "get_daily_browsing_stats" /\ RouteCatches(iter.exc)
                THEN [kind |-> "response", value |-> [status |-> 500, daily_stats |-> <<>>]]
                ELSE [kind |-> "raised", value |-> iter.exc]
         /\ st_pc' = "done"
         /\ UNCHANGED <<daily_stats, st_faults, st_classified, day_offset>>

\* One iteration of `for day_offset in range(days)` (browsing_stats.py lines
\* 24-118), in get_daily_stats called directly, from get_weekly_summary or from
\* the route.  The clock is read at line 26 and again inside read_history.
StDay ==
    /\ st_pc = "loop"
    /\ st_entry \in {"get_daily_stats", "get_weekly_summary", "get_daily_browsing_stats"}
    /\ day_offset < st_days
    /\ \E fault \in {"none", st_fault_kind}, d1, d2 \in ClockTicks :
        /\ st_now + d1 + d2 <= st_deadline
        /\ StDayApply(DayIteration(st_store, day_offset, fault, st_remote,
                                   st_now + d1, st_now + d1 + d2))
        /\ st_now' = st_now + d1 + d2
    /\ UNCHANGED <<st_entry, st_days, st_args, st_store, st_fault_kind, st_remote,
                   st_param, st_deadline>>
    /\ UNCHANGED not_st_vars

\* `return daily_stats` (line 120) to an outside caller.
StDailyReturn ==
    /\ st_pc = "loop"
    /\ st_entry = "get_daily_stats"
    /\ day_offset = st_days
    /\ st_result' = [kind |-> "stats", value |-> daily_stats]
    /\ st_pc' = "done"
    /\ UNCHANGED <<st_entry, st_days, st_args, st_store, st_fault_kind, st_remote,
                   day_offset, daily_stats, st_faults, st_param, st_now, st_deadline,
                   st_classified>>
    /\ UNCHANGED not_st_vars

\* The route after get_daily_stats returned (line 293).
StRouteReturn ==
    /\ st_pc = "loop"
    /\ st_entry = "get_daily_browsing_stats"
    /\ day_offset >= st_days
    /\ st_result' = [kind |-> "response",
                     value |-> [status |-> 200, daily_stats |-> daily_stats]]
    /\ st_pc' = "done"
    /\ UNCHANGED <<st_entry, st_days, st_args, st_store, st_fault_kind, st_remote,
                   day_offset, daily_stats, st_faults, st_param, st_now, st_deadline,
                   st_classified>>
    /\ UNCHANGED not_st_vars

\* get_weekly_summary after get_daily_stats returned (lines 134-174).
StWeeklyReduce ==
    /\ st_pc = "loop"
    /\ st_entry = "get_weekly_summary"
    /\ day_offset = st_days
    /\ st_result' = [kind |-> "summary", value |-> WeeklySummary(daily_stats)]
    /\ st_pc' = "done"
    /\ UNCHANGED <<st_entry, st_days, st_args, st_store, st_fault_kind, st_remote,
                   day_offset, daily_stats, st_faults, st_param, st_now, st_deadline,
                   st_classified>>
    /\ UNCHANGED not_st_vars

StReviewApply(outcome) ==
    /\ st_faults' = <<outcome.caught>>
    /\ st_result' = outcome.result

\* handle_daily_review (lines 17-76).
StReview ==
    /\ st_pc = "loop"
    /\ st_entry = "handle_daily_review"
    /\ \E fault \in {"none", st_fault_kind}, d \in ClockTicks :
        /\ st_now + d <= st_deadline
        /\ StReviewApply(ReviewOutcome(
                ReviewBody(st_store, st_args, fault, st_remote, st_now + d)))
        /\ st_now' = st_now + d
    /\ st_pc' = "done"
    /\ UNCHANGED <<st_entry, st_days, st_args, st_store, st_fault_kind, st_remote,
                   day_offset, daily_stats, st_param, st_deadline, st_classified>>
    /\ UNCHANGED not_st_vars

StNext ==
    \/ StRouteCall
    \/ StDay
    \/ StDailyReturn
    \/ StRouteReturn
    \/ StWeeklyReduce
    \/ StReview

StSpec == StInit /\ [][StNext]_vars

(***************************************************************************)
(* handle_daily_review together with the read_history invocation it makes: *)
(* invocation 1 of the reader runs step by step, then the handler goes on   *)
(* with what it returned or raised.                                        *)
(***************************************************************************)
Caller == 1

RvInit ==
    /\ st_entry = "handle_daily_review"
    /\ st_days = 0
    /\ st_args \in ReviewArgs
    /\ st_store \in Stores
    /\ st_fault_kind \in {"none", "TypeError"}
    /\ st_remote \in RemoteModes
    /\ day_offset = 0
    /\ daily_stats = <<>>
    /\ st_faults = <<>>
    /\ st_result = NoResult
    /\ st_pc = "reading"
    /\ st_param = <<>>
    /\ st_now \in ClockStarts
    /\ st_deadline = st_now
    /\ st_classified = <<>>
    /\ platform_system \in {"Darwin", "Windows", "Linux", "FreeBSD"}
    /\ store_exists \in BOOLEAN
    /\ tmp_files = {}
    /\ tmp_copied = {}
    /\ next_tmp = 1
    /\ rd_pc = [p \in Readers |-> IF p = Caller THEN "start" ELSE "idle"]
    /\ rd_temp = [p \in Readers |-> 0]
    /\ rd_exc = [p \in Readers |-> "none"]
    /\ rd_read_from = [p \in Readers |-> 0]
    /\ rd_remove_failed = [p \in Readers |-> FALSE]
    /\ CatIdle
    /\ VaIdle
    /\ RhIdle
    /\ RpIdle
    /\ CmIdle

\* Lines 33-76 once read_history has returned or raised.
RvHandle ==
    /\ st_pc = "reading"
    /\ rd_pc[Caller] \in {"returned", "raised"}
    /\ StReviewApply(ReviewOutcome(
            ReviewParsed(st_store, ParseTimeRange(st_args),
                         IF rd_pc[Caller] = "raised" THEN rd_exc[Caller]
                         ELSE st_fault_kind,
                         st_remote, st_now)))
    /\ st_pc' = "done"
    /\ UNCHANGED <<st_entry, st_days, st_args, st_store, st_fault_kind, st_remote,
                   day_offset, daily_stats, st_param, st_now, st_deadline,
                   st_classified>>
    /\ UNCHANGED not_st_vars

RvNext ==
    \/ RdGetPath(Caller)
    \/ RdMkstemp(Caller)
    \/ RdCopy(Caller)
    \/ RdQuery(Caller)
    \/ RdFinally(Caller)
    \/ RvHandle

RvSpec == RvInit /\ [][RvNext]_vars

(***************************************************************************)
(* chrome_reader.py: the query and the row loop of read_history (lines     *)
(* 126-168).  A stored row is [url, title, ts]; ts is the value SQLite     *)
(* holds in visits.visit_time, [kind, v]:                                  *)
(*   "int"     an integer that converts to the local time v (ticks from    *)
(*             the midnight that begins today);                            *)
(*   "int_far" an integer whose year is out of datetime's range;           *)
(*   "real"    a floating-point value beyond the range of time_t (1e30);   *)
(*   "text"    a text value.                                               *)
(* The column has INTEGER affinity, which keeps such values as they are.   *)
(***************************************************************************)
MaxRows == 3

Ts(kind, v) == [kind |-> kind, v |-> v]

StoredRow(r) == [url |-> r.url, title |-> r.title, ts |-> Ts("int", r.visit_time)]

\* Rows in the store: visits of today and of the days before, a visit dated one
\* hour after the request, an internal page, and rows whose timestamp is not
\* a time.
RowCatalog ==
    { StoredRow(RowHome), StoredRow(RowSettings), StoredRow(RowRepo), StoredRow(RowOld),
      [url |-> "https://later.example/", title |-> "", ts |-> Ts("int", Now + HourTicks)],
      [url |-> "https://far.example/", title |-> "Far", ts |-> Ts("int_far", 0)],
      [url |-> "https://real.example/", title |-> "Real", ts |-> Ts("real", 0)],
      [url |-> "https://text.example/", title |-> "", ts |-> Ts("text", 0)],
      [url |-> "", title |-> "", ts |-> Ts("text", 0)] }

RhStores == {S \in SUBSET RowCatalog : Cardinality(S) <= MaxRows}

\* SQLite's order of values (ORDER BY, >=): numbers by value, before any text.
TsClass(ts) ==
    CASE ts.kind = "int" -> 0
      [] ts.kind = "int_far" -> 1
      [] ts.kind = "real" -> 2
      [] OTHER -> 3

TsBefore(a, b) ==
    \/ TsClass(a) < TsClass(b)
    \/ TsClass(a) = 0 /\ TsClass(b) = 0 /\ a.v <= b.v
    \/ TsClass(a) = TsClass(b) /\ TsClass(a) # 0

\* WHERE visits.visit_time >= ?
AtLeastCutoff(ts, chrome_cutoff) == ts.kind # "int" \/ ts.v >= chrome_cutoff

\* ORDER BY visits.visit_time ASC (rows with equal values in any one order).
RECURSIVE FetchAll(_)
FetchAll(S) ==
    IF S = {} THEN <<>>
    ELSE LET r == CHOOSE x \in S : \A y \in S : TsBefore(x.ts, y.ts)
         IN  <<r>> \o FetchAll(S \ {r})

\* What the try block of convert_chrome_timestamp does (lines 91-96): "ok",
\* or the exception raised; far_exc is what the platform's fromtimestamp
\* raises for an integer out of range.
ChromeConversion(ts, far_exc) ==
    CASE ts.kind = "int" -> "ok"
      [] ts.kind = "int_far" -> far_exc
      [] ts.kind = "real" -> "OverflowError"
      [] OTHER -> "TypeError"

\* except (ValueError, TypeError, OSError) (line 96).
ConversionCatches(exc) == exc \in {"ValueError", "TypeError", "OSError"}

\* The visit dict of lines 156-162.
VisitOf(row, visit_time) ==
    [url |-> row.url, title |-> row.title, visit_time |-> visit_time,
     visit_time_chrome |-> row.ts]

\* What datetime.fromtimestamp may raise for an integer out of range.
FarExceptions == {"ValueError", "OSError", "OverflowError"}

RhInit ==
    /\ rh_store \in RhStores
    /\ rh_hours \in {24, 48}
    /\ rh_far_exc \in FarExceptions
    /\ rh_clock = Now
    /\ rh_now = 0
    /\ rh_rows = <<>>
    /\ rh_i = 0
    /\ rh_visits = <<>>
    /\ rh_exc = "none"
    /\ rh_pc = "start"
    /\ CatIdle
    /\ VaIdle
    /\ RdIdle
    /\ StIdle
    /\ RpIdle
    /\ CmIdle

\* Lines 126-146: the cutoff from datetime.now(), the query, fetchall.
RhQuery ==
    /\ rh_pc = "start"
    /\ rh_now' = rh_clock
    /\ rh_rows' = FetchAll({r \in rh_store :
                              AtLeastCutoff(r.ts, rh_clock - rh_hours * HourTicks)})
    /\ rh_i' = 1
    /\ rh_visits' = <<>>
    /\ rh_pc' = "rows"
    /\ UNCHANGED <<rh_store, rh_hours, rh_far_exc, rh_clock, rh_exc, not_rh_vars>>

\* One iteration of the row loop (lines 149-164): an internal URL is skipped;
\* otherwise the timestamp is converted, a caught failure giving
\* datetime.now(), for which the clock may have advanced by d.
RhRow ==
    /\ rh_pc = "rows"
    /\ rh_i <= Len(rh_rows)
    /\ IF IsInternalUrl(rh_rows[rh_i].url)
       THEN /\ rh_i' = rh_i + 1
            /\ UNCHANGED <<rh_visits, rh_clock, rh_exc, rh_pc>>
       ELSE IF ChromeConversion(rh_rows[rh_i].ts, rh_far_exc) = "ok"
       THEN /\ rh_visits' = Append(rh_visits, VisitOf(rh_rows[rh_i], rh_rows[rh_i].ts.v))
            /\ rh_i' = rh_i + 1
            /\ UNCHANGED <<rh_clock, rh_exc, rh_pc>>
       ELSE IF ConversionCatches(ChromeConversion(rh_rows[rh_i].ts, rh_far_exc))
       THEN \E d \in ClockTicks :
            /\ rh_clock + d <= Now + MaxClockSeconds * TicksPerSecond
            /\ rh_clock' = rh_clock + d
            /\ rh_visits' = Append(rh_visits, VisitOf(rh_rows[rh_i], rh_clock + d))
            /\ rh_i' = rh_i + 1
            /\ UNCHANGED <<rh_exc, rh_pc>>
       ELSE /\ rh_exc' = ChromeConversion(rh_rows[rh_i].ts, rh_far_exc)
            /\ rh_pc' = "raised"
            /\ UNCHANGED <<rh_visits, rh_clock, rh_i>>
    /\ UNCHANGED <<rh_store, rh_hours, rh_far_exc, rh_now, rh_rows, not_rh_vars>>

\* Lines 166-168: return visits.
RhReturn ==
    /\ rh_pc = "rows"
    /\ rh_i > Len(rh_rows)
    /\ rh_pc' = "returned"
    /\ UNCHANGED <<rh_store, rh_hours, rh_far_exc, rh_clock, rh_now, rh_rows, rh_i,
                   rh_visits, rh_exc, not_rh_vars>>

RhNext == RhQuery \/ RhRow \/ RhReturn

RhSpec == RhInit /\ [][RhNext]_vars

(***************************************************************************)
(* report_generator.py.  A part of the report is the list of its lines     *)
(* (the text is their join with newlines); the report is the join of the   *)
(* parts with blank lines.  domain_data and categories are ordered dicts:  *)
(* sequences of [domain, total_duration, visit_count, titles] and of       *)
(* <<domain, category>>.                                                   *)
(***************************************************************************)
MaxDomains == 2
TOP_DOMAINS == 5
TITLE_LIMIT == 10

\* str(n) of a natural number.
RECURSIVE Str(_)
Str(n) == IF n < 10 THEN Digits[n + 1] ELSE Str(n \div 10) \o Digits[(n % 10) + 1]

\* visit_analyzer.format_duration (lines 143-166).
format_duration(seconds) ==
    IF seconds < 60 THEN Str(seconds) \o "s"
    ELSE IF seconds \div 60 < 60 THEN Str(seconds \div 60) \o "m"
    ELSE IF (seconds \div 60) % 60 = 0 THEN Str((seconds \div 60) \div 60) \o "h"
    ELSE Str((seconds \div 60) \div 60) \o "h " \o Str((seconds \div 60) % 60) \o "m"

\* str.replace(pattern, '')
RECURSIVE RemoveAll(_, _)
RemoveAll(text, pattern) ==
    IF Len(text) < Len(pattern) THEN text
    ELSE IF SubSeq(text, 1, Len(pattern)) = pattern
    THEN RemoveAll(SubSeq(text, Len(pattern) + 1, Len(text)), pattern)
    ELSE SubSeq(text, 1, 1) \o RemoveAll(SubSeq(text, 2, Len(text)), pattern)

\* str.strip() for blanks.
RECURSIVE Strip(_)
Strip(text) ==
    IF Len(text) = 0 THEN ""
    ELSE IF SubSeq(text, 1, 1) = " " THEN Strip(SubSeq(text, 2, Len(text)))
    ELSE IF SubSeq(text, Len(text), Len(text)) = " "
    THEN Strip(SubSeq(text, 1, Len(text) - 1))
    ELSE text

\* Line 200.
CleanTitle(title) == Strip(RemoveAll(RemoveAll(title, " - YouTube"), " - Vimeo"))

\* The categories dict as a function; a later entry of a key replaces an earlier.
MapOf(pairs) ==
    [d \in {pairs[j][1] : j \in 1..Len(pairs)} |->
        pairs[CHOOSE j \in 1..Len(pairs) :
                /\ pairs[j][1] = d
                /\ \A m \in (j + 1)..Len(pairs) : pairs[m][1] # d][2]]

\* categories.sort(key=total_duration, reverse=True): stable, descending.
RECURSIVE InsertByTotal(_, _)
InsertByTotal(sorted, c) ==
    IF Len(sorted) = 0 THEN <<c>>
    ELSE IF sorted[Len(sorted)].total_duration >= c.total_duration THEN Append(sorted, c)
    ELSE Append(InsertByTotal(SubSeq(sorted, 1, Len(sorted) - 1), c), sorted[Len(sorted)])

RECURSIVE SortedByTotal(_)
SortedByTotal(cs) ==
    IF Len(cs) = 0 THEN <<>>
    ELSE InsertByTotal(SortedByTotal(SubSeq(cs, 1, Len(cs) - 1)), cs[Len(cs)])

\* ', '.join(items)
RECURSIVE JoinComma(_)
JoinComma(items) ==
    IF Len(items) = 0 THEN ""
    ELSE IF Len(items) = 1 THEN items[1]
    ELSE items[1] \o ", " \o JoinComma(Tail(items))

\* generate_chart_data and json.dumps (lines 42, 78-103): the categories with
\* time, by descending time.  The minutes and hours of an item, roundings of
\* its seconds, are left out of the text.
ChartItem(cat) ==
    "{\"category\": \"" \o DisplayName(cat.category) \o "\", \"visits\": "
        \o Str(cat.visit_count) \o "}"

ChartJson(by_category) ==
    LET HasTime(c) == c.total_duration > 0
        chart_items == SelectSeq(SortedByTotal(by_category), HasTime)
    IN  "{\"type\": \"bar\", \"title\": \"Time Spent by Category\", \"data\": ["
            \o JoinComma([k \in 1..Len(chart_items) |-> ChartItem(chart_items[k])])
            \o "], \"xAxis\": \"category\", \"yAxis\": \"minutes\", "
            \o "\"yAxisLabel\": \"Time (minutes)\"}"

\* The code fence of line 43, three backquotes, which a string of this
\* language cannot hold.
FENCE == "~~~"

\* Line 43.
ChartPart(by_category) == <<FENCE \o "chart", ChartJson(by_category), FENCE>>

\* format_header (lines 106-109).
format_header(today) == <<"# Daily Browsing Review - " \o today>>

\* format_summary (lines 112-131).
format_summary(visit_list, by_domain, by_category) ==
    <<"## Summary",
      "- **Total browsing time:** "
        \o format_duration(SeqSum([k \in 1..Len(by_domain) |->
                                        by_domain[k].total_duration]))
        \o " (estimated)",
      "- **Pages visited:** " \o Str(Len(visit_list)),
      "- **Unique websites:** " \o Str(Len(by_domain)),
      "- **Categories explored:** "
        \o Str(Cardinality({c \in 1..Len(by_category) :
                                by_category[c].visit_count > 0}))>>

\* Lines 160-168: the lines of the first TOP_DOMAINS member domains.
DomainLines(domains) ==
    [k \in 1..(IF Len(domains) < TOP_DOMAINS THEN Len(domains) ELSE TOP_DOMAINS) |->
        "- **" \o domains[k].domain \o ":** " \o format_duration(domains[k].duration)
            \o " (" \o Str(domains[k].visit_count) \o " visit"
            \o (IF domains[k].visit_count # 1 THEN "s" ELSE "") \o ")"]

\* Lines 148-168 for the categories from position k on.
RECURSIVE CategoryLines(_, _, _)
CategoryLines(categories, k, total_duration) ==
    IF k > Len(categories) THEN <<>>
    ELSE IF categories[k].total_duration = 0
    THEN CategoryLines(categories, k + 1, total_duration)
    ELSE <<"", "### " \o DisplayName(categories[k].category) \o " ("
                \o format_duration(categories[k].total_duration) \o " - "
                \o Str(IF total_duration > 0
                       THEN (categories[k].total_duration * 100) \div total_duration
                       ELSE 0)
                \o "%)">>
            \o DomainLines(categories[k].domains)
            \o CategoryLines(categories, k + 1, total_duration)

\* A breakdown without the case of no categories.
format_category_breakdown_NoEmptyCase(by_category) ==
    <<"## Time by Category">>
        \o CategoryLines(SortedByTotal(by_category), 1,
                         SeqSum([c \in 1..Len(by_category) |->
                                    by_category[c].total_duration]))

\* format_category_breakdown (lines 134-170).
format_category_breakdown(by_category) ==
    IF Len(by_category) = 0
    THEN <<"## Time by Category", "", "No categories found.">>
    ELSE <<"## Time by Category">>
            \o CategoryLines(SortedByTotal(by_category), 1,
                             SeqSum([c \in 1..Len(by_category) |->
                                        by_category[c].total_duration]))

\* Position of domain among the keys of domain_data, 0 if absent.
DomainIndex(by_domain, domain) ==
    IF \E k \in 1..Len(by_domain) : by_domain[k].domain = domain
    THEN CHOOSE k \in 1..Len(by_domain) : by_domain[k].domain = domain
    ELSE 0

\* Lines 198-202: the lines of the first TITLE_LIMIT titles that are not
\* empty after cleaning.
TitleLines(titles) ==
    LET shown == SubSeq(titles, 1,
                        IF Len(titles) < TITLE_LIMIT THEN Len(titles) ELSE TITLE_LIMIT)
        cleaned == [t \in 1..Len(shown) |-> CleanTitle(shown[t])]
        NotEmpty(text) == text # ""
        kept == SelectSeq(cleaned, NotEmpty)
    IN  [t \in 1..Len(kept) |-> "- " \o kept[t]]

\* Lines 186-202 for the video domains from position k on.
RECURSIVE VideoLines(_, _, _)
VideoLines(video_domains, k, by_domain) ==
    IF k > Len(video_domains) THEN <<>>
    ELSE LET data == by_domain[DomainIndex(by_domain, video_domains[k])]
         IN  (IF Len(data.titles) = 0 THEN <<>>
              ELSE <<"", "### " \o data.domain,
                     "Time spent: " \o format_duration(data.total_duration),
                     "", "Videos/content:">>
                    \o TitleLines(data.titles))
                \o VideoLines(video_domains, k + 1, by_domain)

\* format_video_section (lines 173-204); <<>> is the empty string.
format_video_section(by_domain, categories) ==
    LET IsVideo(pair) == pair[2] = "video" /\ DomainIndex(by_domain, pair[1]) # 0
        video_pairs == SelectSeq(categories, IsVideo)
        video_domains == [k \in 1..Len(video_pairs) |-> video_pairs[k][1]]
    IN  IF Len(video_domains) = 0 THEN <<>>
        ELSE <<"## Videos Watched">> \o VideoLines(video_domains, 1, by_domain)

\* max(domain_data.values(), key=...): the first position with the largest key.
FirstMax(keys) ==
    CHOOSE k \in 1..Len(keys) :
        /\ \A m \in 1..Len(keys) : keys[m] <= keys[k]
        /\ \A m \in 1..(k - 1) : keys[m] < keys[k]

\* Lines 239-246.
AverageLines(by_domain) ==
    IF Len(by_domain) = 0 THEN <<>>
    ELSE <<"- **Average time per page:** "
            \o format_duration(
                IF SeqSum([k \in 1..Len(by_domain) |-> by_domain[k].visit_count]) > 0
                THEN SeqSum([k \in 1..Len(by_domain) |-> by_domain[k].total_duration])
                       \div SeqSum([k \in 1..Len(by_domain) |->
                                        by_domain[k].visit_count])
                ELSE 0)>>

\* Lines 212-217.
MostVisitedLines(by_domain) ==
    IF Len(by_domain) = 0 THEN <<>>
    ELSE LET most_visited ==
                by_domain[FirstMax([k \in 1..Len(by_domain) |->
                                        by_domain[k].visit_count])]
         IN  <<"- **Most visited:** " \o most_visited.domain \o " ("
                \o Str(most_visited.visit_count) \o " visits)">>

\* Lines 220-226.
LongestSiteLines(by_domain) ==
    IF Len(by_domain) = 0 THEN <<>>
    ELSE LET longest_site ==
                by_domain[FirstMax([k \in 1..Len(by_domain) |->
                                        by_domain[k].total_duration])]
         IN  IF longest_site.total_duration > 0
             THEN <<"- **Most time spent:** " \o longest_site.domain \o " ("
                    \o format_duration(longest_site.total_duration) \o ")">>
             ELSE <<>>

\* Lines 229-236.
DominantCategoryLines(by_category) ==
    IF Len(by_category) = 0 THEN <<>>
    ELSE LET dominant_cat ==
                by_category[FirstMax([c \in 1..Len(by_category) |->
                                            by_category[c].total_duration])]
         IN  IF dominant_cat.total_duration > 0
             THEN <<"- **Primary focus:** " \o DisplayName(dominant_cat.category) \o " ("
                    \o format_duration(dominant_cat.total_duration) \o ")">>
             ELSE <<>>

ESTIMATE_NOTE ==
    "*Note: Time estimates are calculated from visit sequences and may not reflect exact browsing time.*"

\* format_insights (lines 207-251).
format_insights(by_domain, by_category) ==
    <<"## Insights">>
        \o MostVisitedLines(by_domain)
        \o LongestSiteLines(by_domain)
        \o DominantCategoryLines(by_category)
        \o AverageLines(by_domain)
        \o <<"", ESTIMATE_NOTE>>

(***************************************************************************)
(* Inputs of generate_report: domain aggregates with and without titles,   *)
(* with more than TITLE_LIMIT titles, with no time, and with equal visit   *)
(* counts; mappings that name "video", "other" or nothing for a domain,    *)
(* and that may name a domain that has no aggregate.                       *)
(***************************************************************************)
Domain(domain, total_duration, visit_count, titles) ==
    [domain |-> domain, total_duration |-> total_duration,
     visit_count |-> visit_count, titles |-> titles]

DomainPresets ==
    { Domain("video.net", 660, 2, <<"Clip - YouTube", "Talk - Vimeo", " - YouTube">>),
      Domain("youtube.com", 7260, 12,
             [j \in 1..(TITLE_LIMIT + 1) |-> "T" \o Str(j) \o " - YouTube"]),
      Domain("vimeo.com", 60, 1, <<>>),
      Domain("example.com", 59, 2, <<"Home">>),
      Domain("zero.example", 0, 2, <<"Z">>) }

DomainDicts ==
    UNION { {dd \in [1..n -> DomainPresets] :
                \A a, b \in 1..n : a # b => dd[a] # dd[b]} : n \in 0..MaxDomains }

\* The mappings for a domain dict: per domain "video", "other" or no entry,
\* in the order of the dict, with or without an entry for a foreign domain.
RECURSIVE CategoryDicts(_)
CategoryDicts(dd) ==
    IF Len(dd) = 0 THEN { <<>>, << <<"ghost.example", "video">> >> }
    ELSE LET rest == CategoryDicts(Tail(dd))
         IN  rest \cup { << <<dd[1].domain, c>> >> \o r : c \in {"video", "other"}, r \in rest }

\* One visit per counted visit of every domain.
RECURSIVE VisitsOf(_)
VisitsOf(dd) ==
    IF Len(dd) = 0 THEN <<>>
    ELSE [k \in 1..dd[1].visit_count |-> dd[1].domain] \o VisitsOf(Tail(dd))

RpInit ==
    /\ rp_domain_data \in DomainDicts
    /\ rp_categories \in CategoryDicts(rp_domain_data)
    /\ rp_visits = VisitsOf(rp_domain_data)
    /\ rp_today = "November 02, 2026"
    /\ rp_category_data = <<>>
    /\ rp_parts = <<>>
    /\ rp_pc = "start"
    /\ CatIdle
    /\ VaIdle
    /\ RdIdle
    /\ StIdle
    /\ RhIdle
    /\ CmIdle

\* Lines 33-43.
RpChart ==
    /\ rp_pc = "start"
    /\ rp_category_data' = aggregate_by_category(rp_domain_data, MapOf(rp_categories))
    /\ rp_parts' = Append(rp_parts,
                          ChartPart(aggregate_by_category(rp_domain_data,
                                                          MapOf(rp_categories))))
    /\ rp_pc' = "header"
    /\ UNCHANGED <<rp_visits, rp_domain_data, rp_categories, rp_today, not_rp_vars>>

\* Line 46.
RpHeader ==
    /\ rp_pc = "header"
    /\ rp_parts' = Append(rp_parts, format_header(rp_today))
    /\ rp_pc' = "summary"
    /\ UNCHANGED <<rp_visits, rp_domain_data, rp_categories, rp_today,
                   rp_category_data, not_rp_vars>>

\* Line 49.
RpSummary ==
    /\ rp_pc = "summary"
    /\ rp_parts' = Append(rp_parts,
                          format_summary(rp_visits, rp_domain_data, rp_category_data))
    /\ rp_pc' = "breakdown"
    /\ UNCHANGED <<rp_visits, rp_domain_data, rp_categories, rp_today,
                   rp_category_data, not_rp_vars>>

\* Line 52.
RpBreakdown ==
    /\ rp_pc = "breakdown"
    /\ rp_parts' = Append(rp_parts, format_category_breakdown(rp_category_data))
    /\ rp_pc' = "video"
    /\ UNCHANGED <<rp_visits, rp_domain_data, rp_categories, rp_today,
                   rp_category_data, not_rp_vars>>

\* Lines 55-57.
RpVideo ==
    /\ rp_pc = "video"
    /\ rp_parts' = IF Len(format_video_section(rp_domain_data, rp_categories)) > 0
                   THEN Append(rp_parts, format_video_section(rp_domain_data, rp_categories))
                   ELSE rp_parts
    /\ rp_pc' = "insights"
    /\ UNCHANGED <<rp_visits, rp_domain_data, rp_categories, rp_today,
                   rp_category_data, not_rp_vars>>

\* Line 60.
RpInsights ==
    /\ rp_pc = "insights"
    /\ rp_parts' = Append(rp_parts, format_insights(rp_domain_data, rp_category_data))
    /\ rp_pc' = "join"
    /\ UNCHANGED <<rp_visits, rp_domain_data, rp_categories, rp_today,
                   rp_category_data, not_rp_vars>>

\* Lines 63-65: the report is the join of rp_parts.
RpReturn ==
    /\ rp_pc = "join"
    /\ rp_pc' = "returned"
    /\ UNCHANGED <<rp_visits, rp_domain_data, rp_categories, rp_today,
                   rp_category_data, rp_parts, not_rp_vars>>

RpNext ==
    \/ RpChart
    \/ RpHeader
    \/ RpSummary
    \/ RpBreakdown
    \/ RpVideo
    \/ RpInsights
    \/ RpReturn

RpSpec == RpInit /\ [][RpNext]_vars

(***************************************************************************)
(* command_parser.py and the command branch of send_message.  Blanks stand *)
(* for white space.                                                        *)
(***************************************************************************)
\* str.lstrip()
RECURSIVE LStrip(_)
LStrip(text) ==
    IF Len(text) > 0 /\ SubSeq(text, 1, 1) = " "
    THEN LStrip(SubSeq(text, 2, Len(text)))
    ELSE text

\* The length of the first word of a text that starts with one.
RECURSIVE WordLen(_)
WordLen(text) ==
    IF Len(text) = 0 \/ SubSeq(text, 1, 1) = " " THEN 0
    ELSE 1 + WordLen(SubSeq(text, 2, Len(text)))

\* content.split(maxsplit=1): no part, the first word, or the first word and
\* what follows the blanks after it.
SplitOnce(text) ==
    LET t == LStrip(text)
        n == WordLen(t)
        remainder == LStrip(SubSeq(t, n + 1, Len(t)))
    IN  IF Len(t) = 0 THEN <<>>
        ELSE IF Len(remainder) = 0 THEN <<SubSeq(t, 1, n)>>
        ELSE <<SubSeq(t, 1, n), remainder>>

\* is_command (lines 38-48).
is_command(content) == StartsWith(Strip(content), "/")

\* parse_command (lines 51-77): [exc, command, args]; parts[0] of an empty
\* list raises IndexError.
parse_command(content) ==
    LET stripped == Strip(content)
        parts == SplitOnce(SubSeq(stripped, 2, Len(stripped)))
    IN  IF ~StartsWith(stripped, "/")
        THEN [exc |-> "none", command |-> "", args |-> stripped]
        ELSE IF Len(parts) = 0
        THEN [exc |-> "IndexError", command |-> "", args |-> ""]
        ELSE [exc |-> "none", command |-> Lower(parts[1]),
              args |-> IF Len(parts) > 1 THEN parts[2] ELSE ""]

\* COMMANDS (lines 12-32): the names in insertion order, and those with a
\* handler.
COMMANDS == <<"dailyreview", "help">>

COMMAND_REGISTRY == {"dailyreview"}

InCommands(name) == \E k \in 1..Len(COMMANDS) : COMMANDS[k] = name

\* handle_help (lines 80-133): the first line of the text.
handle_help(args) ==
    IF Len(Lower(Strip(args))) > 0
    THEN IF InCommands(Lower(Strip(args)))
         THEN "# Help: /" \o Lower(Strip(args))
         ELSE "Unknown command: /" \o Lower(Strip(args))
    ELSE "# Available Commands"

Response(text) == [kind |-> "response", value |-> text]

Raised(exc) == [kind |-> exc, value |-> ""]

\* Message contents: commands with and without arguments, in upper case, with
\* blanks around and after the slash, unknown ones, a slash with no name, and
\* texts that are no commands.
Contents ==
    { "/", " /", "/ ", "  /  ", "/ help", "/help", "/HELP", " /help ",
      "/help dailyreview", "/help  DailyReview ", "/help nothing",
      "/dailyreview", "/DailyReview yesterday", "/dailyreview last 3 days",
      " /dailyreview  today", "/unknown", "/unknown x y", "//", "/dailyreviews",
      "hello", "a / b", "", " " }

HandlerBehaviours == {"returns", "raises ValueError", "raises KeyError"}

CmInit ==
    /\ cm_content \in Contents
    /\ cm_handler \in HandlerBehaviours
    /\ cm_parsed = [command |-> "", args |-> ""]
    /\ cm_result = NoResult
    /\ cm_pc = "start"
    /\ CatIdle
    /\ VaIdle
    /\ RdIdle
    /\ StIdle
    /\ RhIdle
    /\ RpIdle

\* send_message, lines 103-110: a command goes to route_command, any other
\* text to get_ai_response.
CmReceive ==
    /\ cm_pc = "start"
    /\ cm_pc' = IF is_command(cm_content) THEN "route" ELSE "ai"
    /\ UNCHANGED <<cm_content, cm_handler, cm_parsed, cm_result, not_cm_vars>>

\* Line 110.
CmAiResponse ==
    /\ cm_pc = "ai"
    /\ cm_result' = Response("ai response")
    /\ cm_pc' = "returned"
    /\ UNCHANGED <<cm_content, cm_handler, cm_parsed, not_cm_vars>>

\* route_command, lines 147-149.
CmParse ==
    /\ cm_pc = "route"
    /\ IF parse_command(cm_content).exc = "none"
       THEN /\ cm_parsed' = [command |-> parse_command(cm_content).command,
                             args |-> parse_command(cm_content).args]
            /\ cm_pc' = "parsed"
            /\ UNCHANGED cm_result
       ELSE /\ cm_result' = Raised(parse_command(cm_content).exc)
            /\ cm_pc' = "raised"
            /\ UNCHANGED cm_parsed
    /\ UNCHANGED <<cm_content, cm_handler, not_cm_vars>>

\* Lines 151-167: the answers route_command gives itself.
CmDispatch ==
    /\ cm_pc = "parsed"
    /\ IF cm_parsed.command = "help"
       THEN /\ cm_result' = Response(handle_help(cm_parsed.args))
            /\ cm_pc' = "returned"
       ELSE IF ~InCommands(cm_parsed.command)
       THEN /\ cm_result' = Response("Unknown command: /" \o cm_parsed.command)
            /\ cm_pc' = "returned"
       ELSE IF cm_parsed.command \notin COMMAND_REGISTRY
       THEN /\ cm_result' = Response("Command /" \o cm_parsed.command
                                        \o " is not yet implemented.")
            /\ cm_pc' = "returned"
       ELSE /\ cm_pc' = "call"
            /\ UNCHANGED cm_result
    /\ UNCHANGED <<cm_content, cm_handler, cm_parsed, not_cm_vars>>

\* Lines 169-173: the handler's text, or the text made from its exception.
CmCallHandler ==
    /\ cm_pc = "call"
    /\ cm_result' = IF cm_handler = "returns"
                    THEN Response("report for " \o cm_parsed.args)
                    ELSE Response("Error executing command /" \o cm_parsed.command
                                    \o ": " \o cm_handler)
    /\ cm_pc' = "returned"
    /\ UNCHANGED <<cm_content, cm_handler, cm_parsed, not_cm_vars>>

CmNext ==
    \/ CmReceive
    \/ CmAiResponse
    \/ CmParse
    \/ CmDispatch
    \/ CmCallHandler

CmSpec == CmInit /\ [][CmNext]_vars

(***************************************************************************)
(* Claims.                                                                 *)
(***************************************************************************)
RECURSIVE SumOver(_, _)
\* The sum of f[j] for j in the finite set S.
SumOver(f, S) ==
    IF S = {} THEN 0
    ELSE LET j == CHOOSE k \in S : TRUE IN f[j] + SumOver(f, S \ {j})

Min(a, b) == IF a < b THEN a ELSE b

\* ---- categorize_domains_with_ai ----------------------------------------
InputDomains == {domain_data[j][1] : j \in 1..Len(domain_data)}
TitlesOf(domain) ==
    domain_data[CHOOSE j \in 1..Len(domain_data) : domain_data[j][1] = domain][2]
\* The remote outcome of the batch that holds position j of uncategorized.
OutcomeFor(j) == responses[((j - 1) \div batch_size) + 1]
EmptyReply(o) == o.kind = "dict" /\ DOMAIN o.map = {}

\* C1: whenever categorize_domains_with_ai returns, the keys of the returned
\* mapping are exactly the input domains, whatever the remote calls did.
C1_Totality ==
    cat_pc = "returned" => DOMAIN categorization = InputDomains

\* C1 witness: a return after two batches, one failed and one answered with a
\* partial mapping that also carries keys outside the batch.
C1_Witness ==
    /\ cat_pc = "returned"
    /\ Len(responses) = 2
    /\ responses[1].kind = "fail"
    /\ responses[2].kind = "dict"
    /\ ForeignKeys \subseteq DOMAIN responses[2].map
    /\ \E j \in 1..Len(uncategorized) : uncategorized[j][1] \notin DOMAIN responses[2].map

\* C2: every value of the returned mapping is one of the ten categories,
\* whatever the remote classifier returns for a domain.
C2_ClosedCategories ==
    cat_pc = "returned" =>
        \A d \in DOMAIN categorization : categorization[d] \in CATEGORIES

\* C3: a deferred domain whose batch failed (exception, or a reply that is not
\* a mapping) or was answered without an entry for it ends as "other", and no
\* failure of the remote call reaches the caller.
C3_FallbackNeverSurfaced ==
    /\ cat_pc # "raised"
    /\ cat_pc = "returned" =>
        \A j \in 1..Len(uncategorized) :
            LET d == uncategorized[j][1]
                o == OutcomeFor(j)
            IN  (o.kind # "dict" \/ d \notin DOMAIN o.map)
                    => (d \in DOMAIN categorization /\ categorization[d] = "other")

\* C4: when every batch is answered with an empty mapping, every input domain
\* gets the category heuristic_categorize gives it.
C4_EmptyRemoteIsHeuristic ==
    (cat_pc = "returned" /\ \A b \in 1..Len(responses) : EmptyReply(responses[b]))
        => \A d \in InputDomains :
                /\ d \in DOMAIN categorization
                /\ categorization[d] = heuristic_categorize(d, TitlesOf(d))

\* C4 witness: two batches, both answered with {}, and an input in which the
\* heuristic decides some domains and defers others.
C4_Witness ==
    /\ cat_pc = "returned"
    /\ Len(responses) = 2
    /\ \A b \in 1..Len(responses) : EmptyReply(responses[b])
    /\ \E d \in InputDomains : categorization[d] = "video"
    /\ \E d \in InputDomains : categorization[d] = "development"
    /\ \E d \in InputDomains : categorization[d] = "other"

\* ---- estimate_visit_duration -------------------------------------------
Estimated == va_pc \in {"estimated", "aggregated", "categorized"}
Count(seq, P(_)) == Cardinality({j \in 1..Len(seq) : P(seq[j])})
SameVisit(a, v) == a.url = v.url /\ a.title = v.title /\ a.visit_time = v.visit_time
\* The gap, in ticks, between positions i and i+1 of the annotated list.
Gap(i) == annotated[i + 1].visit_time - annotated[i].visit_time

\* The annotated list is the input in ascending order of time.
AnnotatedIsSortedInput ==
    /\ Len(annotated) = Len(visits)
    /\ \A i \in 1..(Len(annotated) - 1) : Gap(i) >= 0
    /\ \A k \in 1..Len(visits) :
        LET Same(a) == SameVisit(a, visits[k])
        IN  Count(annotated, Same) = Count(visits, Same)

\* C5 as stated: the visit at ascending position i < last gets min(gap, 1800)
\* seconds, the last visit 60, and every duration is within 0..1800.
C5_DurationIsMinGap ==
    Estimated =>
        /\ AnnotatedIsSortedInput
        /\ \A i \in 1..(Len(annotated) - 1) :
            annotated[i].duration_seconds * TicksPerSecond
                = Min(Gap(i), 1800 * TicksPerSecond)
        /\ annotated[Len(annotated)].duration_seconds = 60
        /\ \A i \in 1..Len(annotated) :
            annotated[i].duration_seconds \in 0..1800

\* C5 amended: the visit at ascending position i < last gets the whole seconds
\* of min(gap, 1800) (the fraction of a second is dropped), the last visit 60,
\* and every duration is within 0..1800.
C5_DurationIsWholeSecondsOfMinGap ==
    Estimated =>
        /\ AnnotatedIsSortedInput
        /\ \A i \in 1..(Len(annotated) - 1) :
            LET capped == Min(Gap(i), 1800 * TicksPerSecond)
                d == annotated[i].duration_seconds
            IN  d * TicksPerSecond <= capped /\ capped < (d + 1) * TicksPerSecond
        /\ annotated[Len(annotated)].duration_seconds = 60
        /\ \A i \in 1..Len(annotated) :
            annotated[i].duration_seconds \in 0..1800

\* C5 witness: an input that is not in time order, with a gap that has a
\* fraction of a second and a gap beyond 1800 s.
C5_Witness ==
    /\ Estimated
    /\ \E k \in 1..(Len(visits) - 1) : visits[k].visit_time > visits[k + 1].visit_time
    /\ \E i \in 1..(Len(annotated) - 1) :
        Gap(i) < 1800 * TicksPerSecond /\ Gap(i) % TicksPerSecond # 0
    /\ \E i \in 1..(Len(annotated) - 1) : Gap(i) > 1800 * TicksPerSecond

\* ---- aggregate_by_domain -----------------------------------------------
Aggregated == va_pc \in {"aggregated", "categorized"}
DurationOf == [j \in 1..Len(annotated) |-> annotated[j].duration_seconds]
MembersOf(domain) == {j \in 1..Len(annotated) : extract_domain(annotated[j].url) = domain}
DomainTotal == [k \in 1..Len(domain_map) |-> domain_map[k].total_duration]
DomainCount == [k \in 1..Len(domain_map) |-> domain_map[k].visit_count]

\* C6: each domain's total_duration is the sum of the durations of its visits
\* and its visit_count their number; the totals over all domains equal the
\* sum of all durations and the number of visits.
C6_DomainSums ==
    Aggregated =>
        /\ \A k, m \in 1..Len(domain_map) :
            domain_map[k].domain = domain_map[m].domain => k = m
        /\ \A j \in 1..Len(annotated) :
            \E k \in 1..Len(domain_map) :
                domain_map[k].domain = extract_domain(annotated[j].url)
        /\ \A k \in 1..Len(domain_map) :
            /\ domain_map[k].total_duration
                = SumOver(DurationOf, MembersOf(domain_map[k].domain))
            /\ domain_map[k].visit_count
                = Cardinality(MembersOf(domain_map[k].domain))
        /\ SumOver(DomainTotal, 1..Len(domain_map))
            = SumOver(DurationOf, 1..Len(annotated))
        /\ SumOver(DomainCount, 1..Len(domain_map)) = Len(annotated)

\* C6 witness: two domains, one of them with several visits, of which the
\* first has a non-zero duration.
C6_Witness ==
    /\ Aggregated
    /\ Len(domain_map) = 2
    /\ \E k \in 1..Len(domain_map) :
        /\ domain_map[k].visit_count >= 2
        /\ domain_map[k].urls[1].duration > 0
        /\ domain_map[k].total_duration > domain_map[k].urls[1].duration

\* ---- aggregate_by_category ---------------------------------------------
Categorized == va_pc = "categorized"
\* The positions <<c, m>> at which a domain is listed as a member.
Listings(domain) ==
    {cm \in (1..Len(category_data)) \X (1..MaxVisits + 1) :
        /\ cm[2] <= Len(category_data[cm[1]].domains)
        /\ category_data[cm[1]].domains[cm[2]].domain = domain}
MemberDuration(c) ==
    [m \in 1..Len(category_data[c].domains) |-> category_data[c].domains[m].duration]
MemberCount(c) ==
    [m \in 1..Len(category_data[c].domains) |-> category_data[c].domains[m].visit_count]
CategoryTotal == [c \in 1..Len(category_data) |-> category_data[c].total_duration]
CategoryCount == [c \in 1..Len(category_data) |-> category_data[c].visit_count]

\* C7: every domain is a member of exactly one category (the one the mapping
\* names, "other" when the mapping omits it), each category's totals are the
\* sums over its members, and the category totals sum to the domain totals.
C7_CategorySums ==
    Categorized =>
        /\ \A k \in 1..Len(domain_map) :
            LET d == domain_map[k].domain
            IN  /\ Cardinality(Listings(d)) = 1
                /\ \A cm \in Listings(d) :
                    /\ category_data[cm[1]].category
                        = (IF d \in DOMAIN cat_arg THEN cat_arg[d] ELSE "other")
                    /\ category_data[cm[1]].domains[cm[2]].duration
                        = domain_map[k].total_duration
                    /\ category_data[cm[1]].domains[cm[2]].visit_count
                        = domain_map[k].visit_count
        /\ \A c \in 1..Len(category_data) :
            /\ \A m \in 1..Len(category_data[c].domains) :
                \E k \in 1..Len(domain_map) :
                    domain_map[k].domain = category_data[c].domains[m].domain
            /\ category_data[c].total_duration
                = SumOver(MemberDuration(c), 1..Len(category_data[c].domains))
            /\ category_data[c].visit_count
                = SumOver(MemberCount(c), 1..Len(category_data[c].domains))
        /\ SumOver(CategoryTotal, 1..Len(category_data))
            = SumOver(DomainTotal, 1..Len(domain_map))
        /\ SumOver(CategoryCount, 1..Len(category_data))
            = SumOver(DomainCount, 1..Len(domain_map))

\* C7 witness: a mapping that omits one of two domains and names "video" for
\* the other, so that two categories result.
C7_Witness ==
    /\ Categorized
    /\ Len(domain_map) = 2
    /\ Cardinality(DOMAIN cat_arg) = 1
    /\ Len(category_data) = 2
    /\ \E c \in 1..Len(category_data) :
        category_data[c].category = "other" /\ category_data[c].total_duration > 0

\* ---- get_daily_stats: per-day failure isolation -------------------------
DailyReturned == st_pc = "done" /\ st_entry = "get_daily_stats"

ZeroValued(e) ==
    /\ e.total_time = 0
    /\ e.total_visits = 0
    /\ e.unique_sites = 0
    /\ e.top_category = <<>>
    /\ e.categories = <<>>

\* The entry of a day that did not fail: the one the day's processing gives
\* without any failure, for the clock readings now and read_now.
UnfailedEntry(e, k, now, read_now) ==
    /\ e = DayBody(st_store, k, "none", st_remote, now, read_now).stat
    /\ ~e.has_error

\* C8: in every step of get_daily_stats: an iteration appends exactly one
\* entry and leaves the entries of the days before as they are; the entry of a
\* day whose processing raised is zero-valued and carries the error annotation;
\* the entry of a day that did not raise is the one that day gets when nothing
\* fails, whatever happened on the other days; and the function returns the
\* list with one entry per requested day.
C8_Step ==
    /\ (st_entry = "get_daily_stats" /\ st_pc = "loop" /\ day_offset < st_days) =>
        /\ st_pc' = "loop"
        /\ day_offset' = day_offset + 1
        /\ Len(daily_stats') = day_offset'
        /\ SubSeq(daily_stats', 1, day_offset) = daily_stats
        /\ IF st_faults'[day_offset'] # "none"
           THEN /\ ZeroValued(daily_stats'[day_offset'])
                /\ daily_stats'[day_offset'].has_error
                /\ daily_stats'[day_offset'].error = st_faults'[day_offset']
           ELSE \E d1, d2 \in ClockTicks :
                /\ st_now + d1 + d2 = st_now'
                /\ UnfailedEntry(daily_stats'[day_offset'], day_offset,
                                 st_now + d1, st_now')
    /\ (st_entry = "get_daily_stats" /\ st_pc = "loop" /\ day_offset >= st_days) =>
        /\ st_result' = [kind |-> "stats", value |-> daily_stats]
        /\ Len(daily_stats) = st_days

C8_PerDayFailureIsolation == [][C8_Step]_vars

\* One day failed and another day, which has visits, did not.
C8_Witness ==
    /\ DailyReturned
    /\ st_result.kind = "stats"
    /\ \E k, m \in 1..Len(st_faults) :
        /\ st_faults[k] # "none"
        /\ st_faults[m] = "none"
        /\ st_result.value[m].total_visits > 0
        /\ st_result.value[m].total_time > 0

\* ---- the entry points never propagate ----------------------------------
\* Every day of the request failed.
TotalFailure ==
    /\ Len(st_faults) > 0
    /\ \A k \in 1..Len(st_faults) : st_faults[k] # "none"

\* C9: an entry point that has finished has not raised: handle_daily_review
\* returned a report or a message, get_daily_stats a list with one DailyStat
\* per day, get_weekly_summary a summary, and when every day of the week failed
\* the summary is all-zero and carries an error field.
C9_EntryPointsReturnWellFormed ==
    st_pc = "done" =>
        /\ st_result.kind # "raised"
        /\ st_entry = "handle_daily_review" => st_result.kind = "message"
        /\ st_entry = "get_daily_stats" =>
            st_result.kind = "stats" /\ Len(st_result.value) = st_days
        /\ st_entry = "get_weekly_summary" =>
            /\ st_result.kind = "summary"
            /\ TotalFailure =>
                /\ st_result.value.total_time = 0
                /\ st_result.value.total_visits = 0
                /\ st_result.value.days_with_data = 0
                /\ st_result.value.top_category = <<>>
                /\ st_result.value.categories = <<>>
                /\ st_result.value.has_error

\* ---- read_history: the temporary copy ----------------------------------
RdExited(p) == rd_pc[p] \in {"returned", "raised"}

\* C10: once an invocation of read_history has left (by return or by an
\* exception of the query, the conversion or the copy), no temporary file it
\* created exists, unless its os.remove failed.
C10_TempRemovedOnEveryExit ==
    \A p \in Readers :
        (RdExited(p) /\ ~rd_remove_failed[p] /\ rd_temp[p] # 0)
            => rd_temp[p] \notin tmp_files

\* ---- read_history: concurrent invocations ------------------------------
\* Invocation p issues its read in this step.
ReadsNow(p) == rd_pc[p] = "query" /\ rd_read_from'[p] # 0

\* C11: in every step of every interleaving of read_history invocations: an
\* invocation that issues its read reads the file its own mkstemp created,
\* that file holds a complete copy and still exists, and it is the file of no
\* other invocation; and a file that disappears in the step is the copy of the
\* invocation that runs its finally block in that step, and of no other.
C11_PrivateCopyStep ==
    /\ \A p \in Readers :
        ReadsNow(p) =>
            /\ rd_read_from'[p] = rd_temp[p]
            /\ rd_temp[p] \in tmp_copied
            /\ rd_temp[p] \in tmp_files
            /\ \A q \in Readers \ {p} : rd_temp[q] # rd_temp[p]
    /\ \A f \in tmp_files \ tmp_files' :
        \E p \in Readers :
            /\ rd_pc[p] = "finally" /\ rd_pc'[p] \in {"returned", "raised"}
            /\ rd_temp[p] = f
            /\ \A q \in Readers \ {p} : rd_temp[q] # f

C11_PrivateCopies == [][C11_PrivateCopyStep]_vars

\* One invocation has returned and removed its copy while another, which
\* started its copy meanwhile, has read its own and not yet removed it.
C11_Witness ==
    \E p, q \in Readers :
        /\ p # q
        /\ rd_pc[p] = "returned" /\ rd_read_from[p] # 0 /\ rd_temp[p] \notin tmp_files
        /\ rd_pc[q] = "finally" /\ rd_read_from[q] # 0 /\ rd_temp[q] \in tmp_files
        /\ rd_temp[p] < rd_temp[q]

\* ---- read_history: NotFound and AccessDenied ---------------------------
\* The copy step of invocation p ends in this step without a complete copy.
CopyFailsNow(p) ==
    /\ rd_pc[p] \in {"mkstemp", "copy"}
    /\ rd_pc'[p] \notin {"mkstemp", "copy", "query"}

\* The existence check of invocation p finds no store in this step.
StoreMissingNow(p) ==
    /\ rd_pc[p] = "start" /\ rd_pc'[p] # "start"
    /\ platform_system \in SupportedSystems
    /\ ~store_exists

\* C12: in every step of handle_daily_review and its read_history invocation:
\* when the path is resolved and no store exists there, read_history raises
\* FileNotFoundError; when the copy cannot be made it raises PermissionError;
\* an invocation with either error has raised, has read nothing and takes no
\* further step; and, when the handler finishes, it returns the "not found"
\* message for the first and the "permission" message for the second, after
\* that one invocation of the reader and no other.
C12_Step ==
    /\ StoreMissingNow(Caller) =>
        rd_pc'[Caller] = "raised" /\ rd_exc'[Caller] = "FileNotFoundError"
    /\ CopyFailsNow(Caller) =>
        rd_pc'[Caller] = "raised" /\ rd_exc'[Caller] = "PermissionError"
    /\ rd_exc[Caller] \in {"FileNotFoundError", "PermissionError"} =>
        /\ rd_pc[Caller] = "raised"
        /\ rd_read_from[Caller] = 0
        /\ rd_vars' = rd_vars
    /\ (st_pc = "reading" /\ st_pc' = "done") =>
        /\ rd_exc[Caller] = "FileNotFoundError" =>
            st_result' = [kind |-> "message",
                          value |-> [kind |-> "not_found",
                                     hours |-> ParseTimeRange(st_args)]]
        /\ rd_exc[Caller] = "PermissionError" =>
            st_result' = [kind |-> "message",
                          value |-> [kind |-> "permission",
                                     hours |-> ParseTimeRange(st_args)]]
        /\ next_tmp <= 2
    /\ st_pc = "done" => vars' = vars

C12_NotFoundAndAccessDenied == [][C12_Step]_vars

\* The handler has answered a failed copy: the temporary file was created, the
\* copy was not completed, and the message is the "permission" one.
C12_Witness ==
    /\ st_pc = "done"
    /\ st_entry = "handle_daily_review"
    /\ rd_exc[Caller] = "PermissionError"
    /\ rd_temp[Caller] # 0
    /\ st_result.kind = "message"
    /\ st_result.value.kind = "permission"

\* ---- the daily listing: count, order and dates -------------------------
RouteAnswered == st_pc = "done" /\ st_entry = "get_daily_browsing_stats"

\* min(days, 30), 7 when days is not given.
RequestedDays ==
    IF st_param = <<>> THEN 7 ELSE IF st_param[1] < 30 THEN st_param[1] ELSE 30

\* C13: when the daily listing has answered a request whose days parameter is
\* absent or not negative, the answer holds exactly min(days, 30) entries (7
\* without the parameter), and every entry after the first is dated exactly
\* one calendar day before the entry in front of it.
C13_OneEntryPerCalendarDay ==
    (RouteAnswered /\ RequestedDays >= 0) =>
        /\ st_result.kind = "response"
        /\ st_result.value.status = 200
        /\ Len(st_result.value.daily_stats) = RequestedDays
        /\ \A k \in 2..Len(st_result.value.daily_stats) :
            st_result.value.daily_stats[k].date
                = st_result.value.daily_stats[k - 1].date - 1

\* ---- the visits a DailyStat is computed from ---------------------------
\* The web rows of the store whose local time lies within calendar day `date`.
RowsOfDate(date) ==
    {r \in st_store : ~IsInternalUrl(r.url) /\ r.visit_time \div DayTicks = date}

WebRows == {r \in st_store : ~IsInternalUrl(r.url)}

Unfailed == {k \in 1..Len(daily_stats) : st_faults[k] = "none"}

\* C14: when get_daily_stats has returned, every entry of a day that did not
\* fail counts exactly the visits of the store that lie within its calendar
\* day, and the entries together count no visit twice.
C14_ExactlyTheVisitsOfTheDay ==
    (st_pc = "done" /\ st_entry = "get_daily_stats") =>
        /\ \A k \in Unfailed :
            daily_stats[k].total_visits = Cardinality(RowsOfDate(daily_stats[k].date))
        /\ SeqSum([k \in 1..Len(daily_stats) |-> daily_stats[k].total_visits])
                <= Cardinality(WebRows)

\* ---- get_weekly_summary ------------------------------------------------
WeeklyReturned ==
    st_pc = "done" /\ st_entry = "get_weekly_summary" /\ st_result.kind = "summary"

Week == st_result.value

\* C15: when get_weekly_summary has returned, its daily_breakdown has the 7
\* days and avg_daily_time is the sum of their total_time divided by 7,
\* whatever days have data or carry an error.
C15_AverageDividesBySeven ==
    WeeklyReturned =>
        /\ Len(daily_stats) = 7
        /\ Week.avg_daily_time.den = 7
        /\ Week.avg_daily_time.num = Week.total_time
        /\ Week.avg_daily_time.num
                = SeqSum([k \in 1..Len(daily_stats) |-> daily_stats[k].total_time])

\* Some days have data, some have none and some failed.
C15_Witness ==
    /\ WeeklyReturned
    /\ Week.total_time > 0
    /\ Week.days_with_data \in 2..5
    /\ \E k \in 1..Len(st_faults) : st_faults[k] # "none"
    /\ \E k \in 1..Len(st_faults) :
        st_faults[k] = "none" /\ daily_stats[k].total_visits = 0

\* What day k holds for the category `name`: its time and visits, 0 if absent.
DayShare(k, name) ==
    IF NameIndex(daily_stats[k].categories, name) = 0 THEN [time |-> 0, visits |-> 0]
    ELSE daily_stats[k].categories[NameIndex(daily_stats[k].categories, name)]

DayNames(k) ==
    {daily_stats[k].categories[c].name : c \in 1..Len(daily_stats[k].categories)}

WeekNames == {Week.categories[c].name : c \in 1..Len(Week.categories)}

\* C16: when get_weekly_summary has returned, total_time and total_visits
\* are the sums over the 7 days; the categories are those of the days, each
\* once, with the sums of its time and visits over the days; top_category is
\* None without categories and otherwise one of them, with its summed time,
\* which no category exceeds; days_with_data counts the days with visits.
C16_WeeklyIsReductionOfDays ==
    WeeklyReturned =>
        /\ Week.daily_breakdown = daily_stats
        /\ Week.total_time
                = SeqSum([k \in 1..Len(daily_stats) |-> daily_stats[k].total_time])
        /\ Week.total_visits
                = SeqSum([k \in 1..Len(daily_stats) |-> daily_stats[k].total_visits])
        /\ WeekNames = UNION {DayNames(k) : k \in 1..Len(daily_stats)}
        /\ Cardinality(WeekNames) = Len(Week.categories)
        /\ \A c \in 1..Len(Week.categories) :
            /\ Week.categories[c].time
                = SeqSum([k \in 1..Len(daily_stats) |->
                            DayShare(k, Week.categories[c].name).time])
            /\ Week.categories[c].visits
                = SeqSum([k \in 1..Len(daily_stats) |->
                            DayShare(k, Week.categories[c].name).visits])
        /\ IF Len(Week.categories) = 0 THEN Week.top_category = <<>>
           ELSE /\ Len(Week.top_category) = 1
                /\ \E c \in 1..Len(Week.categories) :
                    /\ Week.categories[c].name = Week.top_category[1].name
                    /\ Week.categories[c].time = Week.top_category[1].time
                /\ \A c \in 1..Len(Week.categories) :
                    Week.categories[c].time <= Week.top_category[1].time
        /\ Week.days_with_data
                = Cardinality({k \in 1..Len(daily_stats) : daily_stats[k].total_visits > 0})

\* A category has time on two days of the week, and there is a second category.
C16_Witness ==
    /\ WeeklyReturned
    /\ Len(Week.categories) >= 2
    /\ \E c \in 1..Len(Week.categories) :
        \E k, m \in 1..Len(daily_stats) :
            /\ k # m
            /\ DayShare(k, Week.categories[c].name).time > 0
            /\ DayShare(m, Week.categories[c].name).time > 0

\* ---- the empty day -----------------------------------------------------
\* C17: in every iteration of get_daily_stats whose read succeeds and whose
\* calendar day has no web visit in the store, the entry appended is the
\* zero-valued DailyStat (total time, visits and sites 0, no top category, no
\* categories), it carries no error annotation, and
\* categorize_domains_with_ai has not been called for that day.
C17_Step ==
    (/\ st_entry \in {"get_daily_stats", "get_weekly_summary", "get_daily_browsing_stats"}
     /\ st_pc = "loop" /\ day_offset < st_days
     /\ Len(st_faults') > Len(st_faults)
     /\ st_faults'[day_offset + 1] \notin ReaderFaults
     /\ RowsOfDate(daily_stats'[day_offset + 1].date) = {}) =>
        /\ Len(daily_stats') = day_offset + 1
        /\ ZeroValued(daily_stats'[day_offset + 1])
        /\ ~daily_stats'[day_offset + 1].has_error
        /\ daily_stats'[day_offset + 1].error = ""
        /\ st_faults'[day_offset + 1] = "none"
        /\ ~st_classified'[day_offset + 1]

C17_EmptyDayIsZeroValued == [][C17_Step]_vars

\* A day without visits has been processed between days that have visits.
C17_Witness ==
    /\ st_entry = "get_daily_stats"
    /\ Len(daily_stats) >= 2
    /\ \E k \in 1..Len(daily_stats) :
        /\ RowsOfDate(daily_stats[k].date) = {}
        /\ st_faults[k] = "none" /\ ~st_classified[k]
        /\ ZeroValued(daily_stats[k]) /\ ~daily_stats[k].has_error
    /\ \E k \in 1..Len(daily_stats) :
        daily_stats[k].total_visits > 0 /\ st_classified[k]

\* ---- heuristic_categorize ----------------------------------------------
\* The first pass has ended and no batch has been submitted yet.
FirstPassDone == cat_pc = "loop" /\ Len(requests) = 0

Deferred(domain) == \E u \in 1..Len(uncategorized) : uncategorized[u][1] = domain

\* What the first pass got from heuristic_categorize for input j: a domain is
\* deferred exactly when the result was "other", and is assigned it otherwise.
HeuristicResult(j) ==
    IF Deferred(domain_data[j][1]) THEN "other"
    ELSE IF domain_data[j][1] \in DOMAIN categorization
         THEN categorization[domain_data[j][1]]
    ELSE "none"

\* Table entries one of whose patterns occurs in the text.
EntriesIn(text) ==
    {k \in 1..Len(DOMAIN_PATTERNS) :
        \E j \in 1..Len(DOMAIN_PATTERNS[k][2]) : Contains(text, DOMAIN_PATTERNS[k][2][j])}

\* Table entries one of whose patterns occurs in the lower-cased domain.
MatchingEntries(domain) == EntriesIn(Lower(domain))

SomeTitleHasKeyword(titles) ==
    \E t \in 1..Len(titles) :
        \E w \in {"video", "watch", "episode", "movie", "film"} :
            Contains(Lower(titles[t]), w)

\* C18: right after the first pass, which has for every input domain what
\* heuristic_categorize returned:
\* the category of the earliest entry of the pattern table that has a pattern
\* occurring in the lower-cased domain; without such an entry, "video" when
\* some title contains one of the five keywords in any letter case, and
\* "other" when none does.
C18_FirstMatchThenTitles ==
    FirstPassDone =>
        \A j \in 1..Len(domain_data) :
            /\ \A k \in MatchingEntries(domain_data[j][1]) :
                (\A m \in MatchingEntries(domain_data[j][1]) : k <= m)
                    => HeuristicResult(j) = DOMAIN_PATTERNS[k][1]
            /\ (MatchingEntries(domain_data[j][1]) = {}
                    /\ SomeTitleHasKeyword(domain_data[j][2]))
                    => HeuristicResult(j) = "video"
            /\ (MatchingEntries(domain_data[j][1]) = {}
                    /\ ~SomeTitleHasKeyword(domain_data[j][2]))
                    => HeuristicResult(j) = "other"

\* The first pass has met a domain two entries of the table match, one that
\* matches in upper case only, and one that has titles and no keyword.
C18_Witness ==
    /\ FirstPassDone
    /\ \E j \in 1..Len(domain_data) :
        /\ Cardinality(MatchingEntries(domain_data[j][1])) >= 2
        /\ HeuristicResult(j) = "video"
    /\ \E j \in 1..Len(domain_data) :
        /\ MatchingEntries(domain_data[j][1]) # {}
        /\ Lower(domain_data[j][1]) # domain_data[j][1]
        /\ HeuristicResult(j) = "productivity"
    /\ \E j \in 1..Len(domain_data) :
        /\ Len(domain_data[j][2]) > 0
        /\ HeuristicResult(j) = "other"

\* ---- the batches of the second pass -------------------------------------
CatEnded == cat_pc \in {"returned", "raised"}

RequestDomains(b) == {requests[b].batch[j][1] : j \in 1..Len(requests[b].batch)}

DeferredSet == {uncategorized[u][1] : u \in 1..Len(uncategorized)}

\* The orders in which the answered batches can be merged.
MergeOrders ==
    {o \in [1..Len(requests) -> 1..Len(requests)] :
        \A a, b \in 1..Len(requests) : a # b => o[a] # o[b]}

\* The merge of the answers in the order o, from position k on.
RECURSIVE MergedInOrder(_, _, _)
MergedInOrder(o, k, acc) ==
    IF k > Len(o) \/ acc.raised THEN acc
    ELSE MergedInOrder(o, k + 1,
            MergeBatch(requests[o[k]].batch,
                       batch_categorize_with_ai(responses[o[k]]),
                       acc.categorization))

\* The batches handed to the remote classifier hold at most 20 domains with
\* at most 3 sample titles each, are pairwise disjoint, cover the deferred
\* domains, and are ceil(n/20) in number.
BatchesCoverDeferred ==
    /\ \A b \in 1..Len(requests) :
        /\ Len(requests[b].batch) \in 1..20
        /\ Len(requests[b].domain_list) = Len(requests[b].batch)
        /\ \A j \in 1..Len(requests[b].batch) :
            /\ requests[b].domain_list[j].domain = requests[b].batch[j][1]
            /\ Len(requests[b].domain_list[j].sample_titles) <= 3
            /\ \A t \in 1..Len(requests[b].domain_list[j].sample_titles) :
                requests[b].domain_list[j].sample_titles[t] = requests[b].batch[j][2][t]
    /\ \A a, b \in 1..Len(requests) : a # b => RequestDomains(a) \cap RequestDomains(b) = {}
    /\ UNION {RequestDomains(b) : b \in 1..Len(requests)} = DeferredSet
    /\ Len(requests) = (Len(uncategorized) + 19) \div 20

\* Merging the answers in any order ends the same way: with the same mapping,
\* or with the exception.
MergeOrderIrrelevant ==
    \A o \in MergeOrders :
        LET r == MergedInOrder(o, 1,
                    [raised |-> FALSE,
                     categorization |-> FirstPass(domain_data, EmptyMap, <<>>).categorization])
        IN  IF cat_pc = "raised" THEN r.raised
            ELSE ~r.raised /\ r.categorization = categorization

\* C19: when categorize_domains_with_ai has ended, the deferred domains have
\* been submitted in ceil(n/20) pairwise disjoint batches of at most 20
\* domains with at most 3 sample titles each, whose union is the deferred set,
\* and the final mapping does not depend on the order the answers are merged in.
C19_BatchesPartitionDeferred ==
    CatEnded => (BatchesCoverDeferred /\ MergeOrderIrrelevant)

\* ---- the order of a category's member domains ---------------------------
\* The position at which aggregate_by_category met the domain in domain_map.
Encounter(domain) == CHOOSE k \in 1..Len(domain_map) : domain_map[k].domain = domain

\* C20: in every category aggregate returned by aggregate_by_category, a
\* member domain has at least the duration of every member after it, and of
\* two members with the same duration the one met first in the domain map
\* comes first.
C20_MembersByDurationStable ==
    Categorized =>
        \A c \in 1..Len(category_data) :
            \A m, n \in 1..Len(category_data[c].domains) :
                m < n =>
                    /\ category_data[c].domains[m].duration
                        >= category_data[c].domains[n].duration
                    /\ category_data[c].domains[m].duration
                        = category_data[c].domains[n].duration
                        => Encounter(category_data[c].domains[m].domain)
                            < Encounter(category_data[c].domains[n].domain)

\* A category of three members, two of the same duration, listed in another
\* order than the one they were met in.
C20_Witness ==
    /\ Categorized
    /\ \E c \in 1..Len(category_data) :
        /\ Len(category_data[c].domains) = 3
        /\ \E m \in 1..2 :
            category_data[c].domains[m].duration = category_data[c].domains[m + 1].duration
        /\ \E m \in 1..2 :
            Encounter(category_data[c].domains[m].domain)
                > Encounter(category_data[c].domains[m + 1].domain)

\* ---- read_history: the records returned --------------------------------
RhWindowStart == rh_now - rh_hours * HourTicks

\* C21: when read_history returns, its records are in ascending order of
\* visit_time, every visit_time lies between (now - hours) and now, now being
\* any reading of the clock during the call, and no record has an empty,
\* chrome:// or chrome-extension:// URL.
C21_AscendingWithinWindowWebOnly ==
    rh_pc = "returned" =>
        /\ \A i, j \in 1..Len(rh_visits) :
            i < j => rh_visits[i].visit_time <= rh_visits[j].visit_time
        /\ \A i \in 1..Len(rh_visits) :
            /\ RhWindowStart <= rh_visits[i].visit_time
            /\ rh_visits[i].visit_time <= rh_clock
            /\ ~IsInternalUrl(rh_visits[i].url)

\* The rows the query selects that are not internal pages.
RhSelected ==
    {r \in rh_store : ~IsInternalUrl(r.url) /\ AtLeastCutoff(r.ts, RhWindowStart)}

\* C22: read_history never fails on a stored timestamp; when it returns, every
\* selected row is returned once, a row whose timestamp is not a time with
\* the current time, every other row with the time its timestamp converts to.
C22_BadTimestampFallsBackToNow ==
    /\ rh_pc # "raised"
    /\ rh_pc = "returned" =>
        /\ Len(rh_visits) = Cardinality(RhSelected)
        /\ \A r \in RhSelected :
            \E i \in 1..Len(rh_visits) :
                /\ rh_visits[i].url = r.url
                /\ rh_visits[i].title = r.title
                /\ rh_visits[i].visit_time_chrome = r.ts
                /\ IF r.ts.kind = "int" THEN rh_visits[i].visit_time = r.ts.v
                   ELSE /\ rh_now <= rh_visits[i].visit_time
                        /\ rh_visits[i].visit_time <= rh_clock

(***************************************************************************)
(* The report (RpSpec).                                                    *)
(***************************************************************************)
RpReturned == rp_pc = "returned"

HasLine(part, line) == \E k \in 1..Len(part) : part[k] = line

\* The positions of the parts that start with the given line.
PartsStarting(line) == {p \in 1..Len(rp_parts) : rp_parts[p][1] = line}

\* C23: generate_report without visits and without domain aggregates returns
\* five parts, none of them empty: the chart block, the header, a summary
\* whose total time, pages, websites and categories are zero, a breakdown
\* that says "No categories found." and the insights.
C23_EmptyInputsYieldEverySection ==
    (RpReturned /\ Len(rp_visits) = 0 /\ Len(rp_domain_data) = 0) =>
        /\ Len(rp_parts) = 5
        /\ \A p \in 1..5 : Len(rp_parts[p]) > 0 /\ rp_parts[p][1] # ""
        /\ Len(rp_parts[1]) = 3
        /\ rp_parts[1][1] = FENCE \o "chart"
        /\ rp_parts[1][3] = FENCE
        /\ rp_parts[2] = <<"# Daily Browsing Review - " \o rp_today>>
        /\ rp_parts[3] = <<"## Summary",
                           "- **Total browsing time:** 0s (estimated)",
                           "- **Pages visited:** 0",
                           "- **Unique websites:** 0",
                           "- **Categories explored:** 0">>
        /\ rp_parts[4] = <<"## Time by Category", "", "No categories found.">>
        /\ rp_parts[5][1] = "## Insights"
        /\ rp_parts[5][Len(rp_parts[5])] = ESTIMATE_NOTE

C23_Witness ==
    /\ RpReturned
    /\ Len(rp_visits) = 0
    /\ Len(rp_domain_data) = 0
    /\ Len(rp_categories) = 0
    /\ Len(rp_parts) = 5

\* The domains of the aggregates that the mapping puts in "video", in the
\* order of the mapping.
VideoDomainsOf(dd, cats) ==
    {k \in 1..Len(dd) : \E j \in 1..Len(cats) : cats[j] = <<dd[k].domain, "video">>}

\* The cleaned titles that a video domain is to show: the first ten, without
\* the suffixes.
ShownTitles(titles) ==
    {CleanTitle(titles[t]) : t \in 1..(IF Len(titles) < 10 THEN Len(titles) ELSE 10)}
        \ {""}

\* C24: the report has a video part exactly if some domain of the aggregates
\* is mapped to "video", and that part holds, for every such domain, its
\* heading, its formatted time and its first ten titles without the suffixes
\* " - YouTube" and " - Vimeo".
C24_VideoSectionListsEveryVideoDomain ==
    RpReturned =>
        /\ (PartsStarting("## Videos Watched") # {})
                <=> (VideoDomainsOf(rp_domain_data, rp_categories) # {})
        /\ \A p \in PartsStarting("## Videos Watched") :
             \A k \in VideoDomainsOf(rp_domain_data, rp_categories) :
                \E l \in 1..(Len(rp_parts[p]) - 1) :
                    /\ rp_parts[p][l] = "### " \o rp_domain_data[k].domain
                    /\ rp_parts[p][l + 1] = "Time spent: "
                            \o format_duration(rp_domain_data[k].total_duration)
                    /\ \A title \in ShownTitles(rp_domain_data[k].titles) :
                            HasLine(rp_parts[p], "- " \o title)

\* What holds of the code: the same for the video domains that have titles.
C24_HoldsForDomainsWithTitles ==
    RpReturned =>
        /\ (PartsStarting("## Videos Watched") # {})
                <=> (VideoDomainsOf(rp_domain_data, rp_categories) # {})
        /\ \A p \in PartsStarting("## Videos Watched") :
             \A k \in VideoDomainsOf(rp_domain_data, rp_categories) :
                Len(rp_domain_data[k].titles) > 0 =>
                    \E l \in 1..(Len(rp_parts[p]) - 1) :
                        /\ rp_parts[p][l] = "### " \o rp_domain_data[k].domain
                        /\ rp_parts[p][l + 1] = "Time spent: "
                                \o format_duration(rp_domain_data[k].total_duration)
                        /\ \A title \in ShownTitles(rp_domain_data[k].titles) :
                                HasLine(rp_parts[p], "- " \o title)

\* The first position of keys with the largest value.
FirstLargest(keys) ==
    CHOOSE k \in 1..Len(keys) :
        \A m \in 1..Len(keys) : keys[m] < keys[k] \/ (keys[m] = keys[k] /\ k <= m)

TotalDuration(dd) == SeqSum([k \in 1..Len(dd) |-> dd[k].total_duration])

TotalCount(dd) == SeqSum([k \in 1..Len(dd) |-> dd[k].visit_count])

ExpectedAverage ==
    IF TotalCount(rp_domain_data) > 0
    THEN TotalDuration(rp_domain_data) \div TotalCount(rp_domain_data)
    ELSE 0

\* The conjuncts of C25 other than the average time per page.
InsightsOtherLines(insights) ==
    /\ insights[1] = "## Insights"
    /\ insights[Len(insights)] = ESTIMATE_NOTE
    /\ Len(rp_domain_data) > 0 =>
        LET d == rp_domain_data[FirstLargest([k \in 1..Len(rp_domain_data) |->
                                                rp_domain_data[k].visit_count])]
            t == rp_domain_data[FirstLargest([k \in 1..Len(rp_domain_data) |->
                                                rp_domain_data[k].total_duration])]
        IN  /\ HasLine(insights, "- **Most visited:** " \o d.domain \o " ("
                                    \o Str(d.visit_count) \o " visits)")
            /\ HasLine(insights, "- **Most time spent:** " \o t.domain \o " ("
                                    \o format_duration(t.total_duration) \o ")")
                    <=> (t.total_duration > 0)
    /\ Len(rp_category_data) > 0 =>
        LET c == rp_category_data[FirstLargest([k \in 1..Len(rp_category_data) |->
                                                rp_category_data[k].total_duration])]
        IN  HasLine(insights, "- **Primary focus:** " \o DisplayName(c.category) \o " ("
                                    \o format_duration(c.total_duration) \o ")")
                <=> (c.total_duration > 0)

\* C25: the insights of every report name the most visited domain (the first
\* of those with the largest count), the domain with the most time and the
\* dominant category only if their time is positive, the average time per
\* page, which is 0 without visits, and the note on estimates.
C25_InsightsAlwaysHaveAverage ==
    RpReturned =>
        /\ InsightsOtherLines(rp_parts[Len(rp_parts)])
        /\ HasLine(rp_parts[Len(rp_parts)],
                   "- **Average time per page:** " \o format_duration(ExpectedAverage))

\* What holds of the code: the average is reported when there are aggregates.
C25_HoldsWithAggregates ==
    RpReturned =>
        /\ InsightsOtherLines(rp_parts[Len(rp_parts)])
        /\ Len(rp_domain_data) > 0 =>
            HasLine(rp_parts[Len(rp_parts)],
                    "- **Average time per page:** " \o format_duration(ExpectedAverage))

(***************************************************************************)
(* The frame of a remote response (CatSpec).                               *)
(***************************************************************************)
\* The domains of the batch that the merge at hand answers.
MergedBatch == BatchDomains(BatchAt(uncategorized, batch_i))

\* The first pass splits the input: what it assigns is not "other" and is
\* not deferred.
FirstPassSplits ==
    cat_pc = "start" =>
        /\ DOMAIN categorization' \cap DeferredSet' = {}
        /\ \A d \in DOMAIN categorization' : categorization'[d] # "other"

\* A merge writes the domains of its own batch only, and these are deferred
\* domains.
MergeWritesOwnBatchOnly ==
    cat_pc = "merge" =>
        /\ MergedBatch \subseteq DeferredSet
        /\ DOMAIN categorization' \subseteq (DOMAIN categorization \cup MergedBatch)
        /\ \A d \in DOMAIN categorization \ MergedBatch :
                /\ d \in DOMAIN categorization'
                /\ categorization'[d] = categorization[d]

\* C26: a remote response affects the domains of its own batch only: every
\* merge leaves the entries of all other domains as they are, among them
\* those the first pass assigned (which are never in a batch), and adds no
\* key that is not a domain of the batch.
C26_ResponseAffectsOwnBatchOnly ==
    [][FirstPassSplits /\ MergeWritesOwnBatchOnly]_vars

\* C26 witness: a merged reply that named the first-pass domain youtube.com
\* with another category than the first pass gave it, and a key that is no
\* input domain.
C26_Witness ==
    /\ cat_pc = "loop"
    /\ batch_i > 0
    /\ ai_results.kind = "dict"
    /\ ForeignKeys \subseteq DOMAIN ai_results.map
    /\ "youtube.com" \in DOMAIN categorization
    /\ categorization["youtube.com"] # ai_results.map["youtube.com"]
    /\ "evil.example" \notin DOMAIN categorization

(***************************************************************************)
(* The breakdown of a day against its totals (StSpec).                     *)
(***************************************************************************)
BreakdownAddsUp(e) ==
    /\ SeqSum([c \in 1..Len(e.categories) |-> e.categories[c].time]) = e.total_time
    /\ SeqSum([c \in 1..Len(e.categories) |-> e.categories[c].visits]) = e.total_visits

\* C27: in every entry of get_daily_stats without an error annotation the
\* times of the categories add up to total_time and their visits to
\* total_visits, whatever names the classifier returned.
C27_BreakdownSumsToTotals ==
    st_entry = "get_daily_stats" =>
        \A k \in 1..Len(daily_stats) :
            ~daily_stats[k].has_error => BreakdownAddsUp(daily_stats[k])

\* What holds of the code: the same when the classifier returns no name that
\* shares its display name with another category of the day.
C27_HoldsWithoutSharedNames ==
    (st_entry = "get_daily_stats" /\ st_remote # "alias") =>
        \A k \in 1..Len(daily_stats) :
            ~daily_stats[k].has_error => BreakdownAddsUp(daily_stats[k])

(***************************************************************************)
(* Commands (CmSpec).                                                      *)
(***************************************************************************)
\* C28: for every content that is_command accepts, route_command returns a
\* response string: it is never left by an exception.
C28_RouteCommandNeverRaises ==
    is_command(cm_content) =>
        /\ cm_pc # "raised"
        /\ cm_pc = "returned" => cm_result.kind = "response"

\* What holds of the code: the same for the contents that name a command,
\* known or not, whatever the handler does.
C28_HoldsWithCommandName ==
    (is_command(cm_content) /\ Len(Strip(cm_content)) > 1) =>
        /\ cm_pc # "raised"
        /\ cm_pc = "returned" => cm_result.kind = "response"

====
